---------------------------- MODULE Spec2Model ----------------------------
(***************************************************************************)
(* epd_image: pixel classification and bit-plane packing for e-paper       *)
(* panels.  The model follows the newer of the two program texts in the    *)
(* repository (src/Makefile, which holds main.c after a 14-line Makefile   *)
(* header); src/main.c is an older revision of the same functions.         *)
(*                                                                         *)
(* The raster is modelled byte by byte (pData), with the dword-aligned     *)
(* pitch the routines compute, and the palette as the three global tables. *)
(* Text formatting of the output (commas, 16 bytes per line) is left out:  *)
(* the output is the sequence of byte values handed to fprintf.            *)
(***************************************************************************)
EXTENDS Integers, Sequences, FiniteSets, TLC

VARIABLES
    pc,         \* position of the program
    img,        \* the input image as chosen: pixels in visual row-major order
    iOption,    \* OPTION_BW .. OPTION_4GRAY
    iWidth, iHeight, iBpp,
    pData,      \* the raster: byte offset -> 0..255
    ucRed, ucGreen, ucBlue,   \* palette tables (index -> 0..255)
    fn,         \* the classifier last called (pixel specification)
    px,         \* the pixel (x) last sampled
    ucPixel,    \* the value the classifier returned
    iPlane, x, y, uc, i,      \* MakeC_* loop state
    iPitch, iTotal,           \* declared bytes per line / per plane
    codeLog,    \* the values the classifier returned for the current plane
    out,        \* the bytes written, one sequence per plane
    bMirror, bFlipv, bInvert, bDither,   \* main(): the transforms requested
    iRotation,  \* main(): rotation in degrees, as passed to RotateImage
    lFErr, errors, cOut, pDest,          \* DitherBMP, Black/White
    lFErrR, lFErrG, lFErrB, iErrors,     \* DitherBMP, colour
    dlog,       \* what DitherBMP computed for each pixel and channel so far
    calls,      \* the transform calls made so far, and how each ended
    pTemp, sOff, dOff,   \* RotateImage: the temporary image, s and d
    junk        \* RotateImage: what a read outside the buffers returns

rasterVars == <<iWidth, iHeight, iBpp, pData, ucRed, ucGreen, ucBlue>>
pixelVars  == <<fn, px, ucPixel>>
packVars   == <<iPlane, x, y, uc, i, iPitch, iTotal, codeLog, out>>
optVars    == <<bMirror, bFlipv, bInvert, bDither, iRotation>>
ditherVars == <<lFErr, errors, cOut, pDest, lFErrR, lFErrG, lFErrB, iErrors,
                dlog>>
rotateVars == <<pTemp, sOff, dOff, junk>>
auxVars    == <<optVars, ditherVars, rotateVars, calls>>
vars == <<pc, img, iOption, auxVars, rasterVars, pixelVars, packVars>>

-----------------------------------------------------------------------------
(* Output format options *)
OPTION_BW    == 0
OPTION_BWR   == 1
OPTION_BWY   == 2
OPTION_BWYR  == 3
OPTION_4GRAY == 4

-----------------------------------------------------------------------------
(* C integer helpers on non-negative values *)
Pow2(n) == 2 ^ n
Shr(v, n) == v \div Pow2(n)
\* v << n kept in a uint8_t
Shl8(v, n) == (v * Pow2(n)) % 256
Bit(v, n) == (v \div Pow2(n)) % 2
\* a | b on 8-bit values
Or8(a, b) ==
    LET Ob(n) == IF Bit(a, n) = 1 \/ Bit(b, n) = 1 THEN Pow2(n) ELSE 0
    IN  Ob(0) + Ob(1) + Ob(2) + Ob(3) + Ob(4) + Ob(5) + Ob(6) + Ob(7)

\* a global table is zero where nothing was stored
Tab(t, k) == IF k \in DOMAIN t THEN t[k] ELSE 0
\* a byte of the raster
Byte(p, off) == IF off \in DOMAIN p THEN p[off] ELSE 0

\* ((w * bpp) + 7)/8, then (pitch + 3) & 0xfffc
SrcPitch(w, bpp) ==
    LET p == (w * bpp + 7) \div 8
    IN  (((p + 3) % 65536) \div 4) * 4

-----------------------------------------------------------------------------
(* PixelSampler *)

\* the switch on iBpp shared by GetYellowPixel, GetRedPixel and GetBWYRPixel:
\* uc is the palette index read (0 when there is none), r, g, b the colour
FetchRGB(xx, yy, p, pitch, bpp) ==
    CASE bpp = 4 ->
           LET s   == Byte(p, yy * pitch + Shr(xx, 1))
               idx == (IF xx % 2 = 0 THEN Shr(s, 4) ELSE s) % 16
           IN  [uc |-> idx, r |-> Tab(ucRed, idx), g |-> Tab(ucGreen, idx),
                b |-> Tab(ucBlue, idx)]
      [] bpp = 8 ->
           LET idx == Byte(p, yy * pitch + xx)
           IN  [uc |-> idx, r |-> Tab(ucRed, idx), g |-> Tab(ucGreen, idx),
                b |-> Tab(ucBlue, idx)]
      [] bpp \in {24, 32} ->
           LET o == yy * pitch + Shr(xx * bpp, 3)
           IN  [uc |-> 0, r |-> Byte(p, o + 2), g |-> Byte(p, o + 1),
                b |-> Byte(p, o)]
      [] OTHER -> [uc |-> 0, r |-> 0, g |-> 0, b |-> 0]

\* gr = (b + r + g*2)>>2
Gray(r, g, b) == Shr(b + r + g * 2, 2)

\* b = ((b + g + r*2) >> 2) in GetGrayPixel ("simple grayscale")
SimpleGray(r, g, b) == Shr(b + g + r * 2, 2)

\* (case 1 of the older revision, src/main.c lines 346-351: no uc &= 1)
GrayBit1NoMask(s, xx) ==
    LET u == Shr(s, xx % 8)
    IN  Or8(u, Shl8(u, 1))

\* case 1 of GetGrayPixel
GrayBit1(s, xx) ==
    LET u == Shr(s, xx % 8) % 2
    IN  Or8(u, Shl8(u, 1))

GetGrayPixel(xx, yy, p, pitch, bpp) ==
    IF bpp = 1
    THEN GrayBit1(Byte(p, yy * pitch + Shr(xx, 3)), xx)
    ELSE IF bpp \in {4, 8, 24, 32}
         THEN LET f == FetchRGB(xx, yy, p, pitch, bpp)
              IN  Shr(SimpleGray(f.r, f.g, f.b), 6) % 256
         ELSE 0

\* uc |= (ucPixel >> 1) in MakeC_BW: "only need MSB"
BWBitLow(v) == v % 2
BWBit(v) == Shr(v, 1)

-----------------------------------------------------------------------------
(* ColorClassifier *)

\* (a variant that tests dominance over b alone)
RedMatchOverB(r, g, b) ==
    LET gr == Gray(r, g, b)
    IN  IF r > b
        THEN IF gr < 100 /\ r < 80
             THEN 0
             ELSE IF r - b > 32 /\ r - g > 32 THEN 2 ELSE 1
        ELSE IF gr >= 100 THEN 1 ELSE 0

\* black (0), white (1) or red (2)
RedMatch(r, g, b) ==
    LET gr == Gray(r, g, b)
    IN  IF r > g /\ r > b
        THEN IF gr < 100 /\ r < 80
             THEN 0
             ELSE IF r - b > 32 /\ r - g > 32 THEN 2 ELSE 1
        ELSE IF gr >= 100 THEN 1 ELSE 0

GetRedPixel(xx, yy, p, pitch, bpp) ==
    LET f == FetchRGB(xx, yy, p, pitch, bpp)
    IN  RedMatch(f.r, f.g, f.b)

\* black, white (|= 1) or yellow (|= 2), or-ed into uc, which still holds
\* the palette index the switch read
YellowMatch(uc0, r, g, b) ==
    LET gr == Gray(r, g, b)
    IN  IF r > b /\ g > b
        THEN IF gr < 100 /\ r < 80
             THEN uc0
             ELSE IF r - b > 32 /\ g - b > 32 THEN Or8(uc0, 2) ELSE Or8(uc0, 1)
        ELSE IF gr >= 100 THEN Or8(uc0, 1) ELSE uc0

GetYellowPixel(xx, yy, p, pitch, bpp) ==
    LET f == FetchRGB(xx, yy, p, pitch, bpp)
    IN  YellowMatch(f.uc, f.r, f.g, f.b)

\* (the decision chain of the older revision, src/main.c lines 314-336)
BWYRMatchOld(r, g, b) ==
    LET gr == Gray(r, g, b)
    IN  IF r > b \/ g > b
        THEN IF gr < 100 /\ r < 80 /\ g < 80
             THEN 0
             ELSE IF r - b > 32 /\ r - g > 32
                  THEN 3
                  ELSE IF r - b > 32 /\ g - b > 32 THEN 2 ELSE 1
        ELSE IF gr >= 100 THEN 1 ELSE 0

\* black (0), white (1), yellow (2) or red (3)
BWYRMatch(r, g, b) ==
    LET gr == Gray(r, g, b)
    IN  IF r > b \/ g > b
        THEN IF gr < 90 \/ (r < 80 /\ g < 80)
             THEN 0
             ELSE IF r - b > 32 /\ r - g > 70
                  THEN 3
                  ELSE IF r - b > 32 /\ g - b > 32 THEN 2 ELSE 1
        ELSE IF gr >= 100 THEN 1 ELSE 0

GetBWYRPixel(xx, yy, p, pitch, bpp) ==
    LET f == FetchRGB(xx, yy, p, pitch, bpp)
    IN  BWYRMatch(f.r, f.g, f.b)

-----------------------------------------------------------------------------
(* ErrorDiffuser: the functions DitherBMP calls *)

\* case 1 of GetGrayPixel8: uc >>= (x & 7); uc |= (uc << 1);
\* uc |= (uc << 2) | (uc << 4) | (uc << 6); in a uint8_t
GrayBit8(s, xx) ==
    LET u0 == Shr(s, xx % 8)
        u1 == Or8(u0, Shl8(u0, 1))
    IN  Or8(Or8(u1, Shl8(u1, 2)), Or8(Shl8(u1, 4), Shl8(u1, 6)))

\* the given pixel as a 8-bit grayscale value
GetGrayPixel8(xx, yy, p, pitch, bpp) ==
    IF bpp = 1
    THEN GrayBit8(Byte(p, yy * pitch + Shr(xx, 3)), xx)
    ELSE IF bpp \in {4, 8, 24, 32}
         THEN LET f == FetchRGB(xx, yy, p, pitch, bpp)
              IN  SimpleGray(f.r, f.g, f.b) % 256
         ELSE 0

\* (MatchBestColor with the 4-colour thresholds of the older classifier,
\* src/main.c lines 314-336)
MatchBestColorOld(r, g, b, iOutFormat) ==
    IF iOutFormat \in {OPTION_BWR, OPTION_BWY, OPTION_BWYR}
    THEN LET code == CASE iOutFormat = OPTION_BWR -> RedMatch(r, g, b)
                       [] iOutFormat = OPTION_BWY -> YellowMatch(0, r, g, b)
                       [] OTHER -> BWYRMatchOld(r, g, b)
         IN  CASE code = 0 -> <<0, 0, 0>>
               [] code = 1 -> <<255, 255, 255>>
               [] code = 2 /\ iOutFormat # OPTION_BWR -> <<255, 255, 0>>
               [] OTHER -> <<255, 0, 0>>
    ELSE <<r, g, b>>

\* MatchBestColor: the colour written through pR, pG, pB, as <<r, g, b>>
MatchBestColor(r, g, b, iOutFormat) ==
    LET gr == Shr(b + r + g * 2, 2)
    IN  CASE iOutFormat = OPTION_BWR ->
               IF r > g /\ r > b
               THEN IF gr < 100 /\ r < 80
                    THEN <<0, 0, 0>>
                    ELSE IF r - b > 32 /\ r - g > 32
                         THEN <<255, 0, 0>>
                         ELSE <<255, 255, 255>>
               ELSE IF gr >= 100 THEN <<255, 255, 255>> ELSE <<0, 0, 0>>
          [] iOutFormat = OPTION_BWY ->
               IF r > b /\ g > b
               THEN IF gr < 100 /\ r < 80
                    THEN <<0, 0, 0>>
                    ELSE IF r - b > 32 /\ g - b > 32
                         THEN <<255, 255, 0>>
                         ELSE <<255, 255, 255>>
               ELSE IF gr >= 100 THEN <<255, 255, 255>> ELSE <<0, 0, 0>>
          [] iOutFormat = OPTION_BWYR ->
               IF r > b \/ g > b
               THEN IF gr < 90 \/ (r < 80 /\ g < 80)
                    THEN <<0, 0, 0>>
                    ELSE IF r - b > 32 /\ r - g > 70
                         THEN <<255, 0, 0>>
                         ELSE IF r - b > 32 /\ g - b > 32
                              THEN <<255, 255, 0>>
                              ELSE <<255, 255, 255>>
               ELSE IF gr >= 100 THEN <<255, 255, 255>> ELSE <<0, 0, 0>>
          [] OTHER -> <<r, g, b>>

\* (each part rounded on its own)
FSPartsEach(v) ==
    LET h == v \div 2
    IN  <<(7 * h) \div 8, h \div 8, (5 * h) \div 8, (3 * h) \div 8>>

\* the Floyd-Steinberg error for this pixel: h = v >> 1; e1 = (7*h)>>3;
\* e2 = h - e1; e3 = (5*h) >> 3; e4 = h - e3; as <<e1, e2, e3, e4>>.
\* >> on a negative int32_t rounds down, as \div does.
FSParts(v) ==
    LET h  == v \div 2
        e1 == (7 * h) \div 8
        e3 == (5 * h) \div 8
    IN  <<e1, h - e1, e3, h - e3>>

\* if (lFErr < 0) lFErr = 0; else if (lFErr > 255) lFErr = 255;
Clamp255(v) == IF v < 0 THEN 0 ELSE IF v > 255 THEN 255 ELSE v

\* (the gray taken as it is)
ToneFull(g) == g
\* cNew = (cNew * 2)/3: make white end of spectrum less "blown out"
Tone(g) == (g * 2) \div 3

-----------------------------------------------------------------------------
(* GeometricTransformer: vertical flip *)

\* (a normalisation that leaves the rows where they are)
NoFlip(p, w, h, bpp) == p

\* swap line y with line h-1-y, for y < h/2, over the whole pitch
FlipBMP(p, w, h, bpp) ==
    LET pitch == SrcPitch(w, bpp)
    IN  [off \in DOMAIN p |->
            IF off < pitch * h
            THEN Byte(p, (h - 1 - (off \div pitch)) * pitch + (off % pitch))
            ELSE p[off]]

-----------------------------------------------------------------------------
(* GeometricTransformer: mirror, invert, rotate *)

\* what malloc may hand over in a byte no store reached
Fill == {0, 255}

\* the number of bytes of a buffer
Size(p) == Cardinality(DOMAIN p)

\* ucMirror[]: the table that flips the bit direction of a byte
ucMirror(c) ==
    LET Mb(n) == Bit(c, n) * Pow2(7 - n)
    IN  Mb(0) + Mb(1) + Mb(2) + Mb(3) + Mb(4) + Mb(5) + Mb(6) + Mb(7)

\* (c << 4) | (c >> 4) on a uint8_t
NibbleSwap(c) == Or8(Shl8(c, 4), Shr(c, 4))

\* (a loop that stores *s++ = c2 and leaves *d as it was)
MirrorLineOneWay(p, base, col, bpp, w) ==
    LET u == CASE bpp = 24 -> 3 [] bpp = 32 -> 4 [] OTHER -> 1
        n == CASE bpp = 1 -> Shr(w, 3) [] bpp = 4 -> Shr(w, 1) [] OTHER -> w
        m == CASE bpp = 1 -> Shr(w, 4) [] bpp = 4 -> Shr(w, 2)
               [] OTHER -> Shr(w, 1)
    IN  IF col \div u < m
        THEN Byte(p, base + u * (n - 1 - (col \div u)) + (col % u))
        ELSE Byte(p, base + col)

\* (a loop that exchanges the units of the whole pitch, padding included)
MirrorLineWhole(p, base, col, bpp, w) ==
    LET u == CASE bpp = 24 -> 3 [] bpp = 32 -> 4 [] OTHER -> 1
        n == SrcPitch(w, bpp) \div u
        q == col \div u
    IN  IF q < n
        THEN Byte(p, base + u * (n - 1 - q) + (col % u))
        ELSE Byte(p, base + col)

\* a line after the while (x) loop of MirrorBMP: the line holds n units of
\* u bytes between s and d, and m = n/2 pairs of them are exchanged from
\* both ends, the exchanged bytes passing through ucMirror (1 bpp), a
\* nibble swap (4 bpp) or unchanged (8, 24, 32 bpp)
MirrorLine(p, base, col, bpp, w) ==
    LET u == CASE bpp = 24 -> 3 [] bpp = 32 -> 4 [] OTHER -> 1
        n == CASE bpp = 1 -> Shr(w, 3) [] bpp = 4 -> Shr(w, 1) [] OTHER -> w
        m == CASE bpp = 1 -> Shr(w, 4) [] bpp = 4 -> Shr(w, 2)
               [] OTHER -> Shr(w, 1)
        q == col \div u
        k == col % u
        v == Byte(p, base + u * (n - 1 - q) + k)
    IN  IF q < n /\ (q < m \/ q >= n - m)
        THEN CASE bpp = 1 -> ucMirror(v) [] bpp = 4 -> NibbleSwap(v)
               [] OTHER -> v
        ELSE Byte(p, base + col)

\* mirror image horizontally; a 1 bpp image whose width is not a multiple
\* of 8 is left as it is, and so is an image of any other depth
MirrorBMP(p, w, h, bpp) ==
    LET pitch == SrcPitch(w, bpp)
    IN  [off \in DOMAIN p |->
            IF /\ off < pitch * h
               /\ bpp \in {1, 4, 8, 24, 32}
               /\ (bpp = 1 => w % 8 = 0)
            THEN MirrorLine(p, (off \div pitch) * pitch, off % pitch, bpp, w)
            ELSE p[off]]

\* the offsets MirrorBMP stores to: *s++ and *d-- of each of the m rounds of
\* each line (s[0..2], d[0..2] at 24 bpp, *ls and *ld at 32 bpp)
MirrorStores(w, h, bpp) ==
    LET pitch == SrcPitch(w, bpp)
        u == CASE bpp = 24 -> 3 [] bpp = 32 -> 4 [] OTHER -> 1
        n == CASE bpp = 1 -> Shr(w, 3) [] bpp = 4 -> Shr(w, 1) [] OTHER -> w
        m == CASE bpp = 1 -> Shr(w, 4) [] bpp = 4 -> Shr(w, 2)
               [] OTHER -> Shr(w, 1)
    IN  IF bpp \in {1, 4, 8, 24, 32} /\ (bpp = 1 => w % 8 = 0)
        THEN UNION {{yy * pitch + u * j + k, yy * pitch + u * (n - 1 - j) + k} :
                       <<yy, j, k>> \in (0..(h - 1)) \X (0..(m - 1))
                                           \X (0..(u - 1))}
        ELSE {}

\* the offsets FlipBMP stores to: s[x] and d[x] for x < iPitch, for each of
\* the iHeight/2 pairs of lines
FlipStores(w, h, bpp) ==
    LET pitch == SrcPitch(w, bpp)
    IN  UNION {{yy * pitch + xx, (h - 1 - yy) * pitch + xx} :
                  <<yy, xx>> \in (0..((h \div 2) - 1)) \X (0..(pitch - 1))}

\* p[iOffBits + i] = ~p[iOffBits + i] over the whole raster
InvertBMP(p) == [off \in DOMAIN p |-> 255 - p[off]]

\* case 4 of RotateImage on a w x h raster p.  The loop counters x and y
\* are uint8_t; s runs on from where the previous pair of lines left it;
\* d starts at pTemp - y + (w-1)/2.  t = <<y/2, x, j>> names the j-th store
\* of one turn of the inner loop.  fill stands for the bytes of pTemp that
\* malloc handed over and no store reached, and for bytes read past p.
\* ub: an access fell outside pTemp or p.
Rotate4(p, w, h, fill) ==
    LET iSrcPitch == SrcPitch(w, 4)
        iDstPitch == SrcPitch(h, 4)
        cnt  == Shr(h + 1, 1)
        T    == (0..((h - 1) \div 2)) \X (0..(cnt - 1)) \X {0, 1}
        SrcAt(t) == t[1] * (2 * iSrcPitch + cnt) + t[2]
        Rd(off) == IF off \in DOMAIN p THEN p[off] ELSE fill
        c1(t) == Rd(SrcAt(t))
        c2(t) == Rd(SrcAt(t) + iSrcPitch)
        DstAt(t) == ((w - 1) \div 2) - (2 * t[1]) + (t[2] * 2 * iDstPitch)
                    + (t[3] * iDstPitch)
        Val(t) == IF t[3] = 0
                  THEN Or8(Shr(c1(t), 4), c2(t) - (c2(t) % 16))
                  ELSE Or8(Shl8(c2(t), 4), c1(t) % 16)
        Ord(t) == ((t[1] * cnt + t[2]) * 2) + t[3]
        Temp(off) ==
            LET hit == {t \in T : DstAt(t) = off}
            IN  IF hit = {} THEN fill
                ELSE Val(CHOOSE t \in hit : \A o \in hit : Ord(o) <= Ord(t))
        n    == iDstPitch * w
        last == IF n > Size(p) THEN n ELSE Size(p)
    IN  [p  |-> [off \in 0..(last - 1) |->
                    IF off < n THEN Temp(off) ELSE p[off]],
         ub |-> \/ n > Size(p)
                \/ \E t \in T :
                      \/ DstAt(t) \notin 0..(((w + 2) * iDstPitch) - 1)
                      \/ SrcAt(t) + iSrcPitch \notin DOMAIN p]

\* x = *iWidth; with uint8_t x
SwapThroughX(v) == v % 256

\* RotateImage: what it leaves in the raster, *iWidth and *iHeight.
\* hang: for (y = 0; y < h; y += 2) with a uint8_t y never ends when h > 254
RotateImage(rot, p, w, h, bpp, fill) ==
    IF rot = 0
    THEN [p |-> p, w |-> w, h |-> h, ub |-> FALSE, hang |-> FALSE]
    ELSE IF rot = 180
    THEN [p |-> MirrorBMP(FlipBMP(p, w, h, bpp), w, h, bpp),
          w |-> w, h |-> h, ub |-> FALSE, hang |-> FALSE]
    ELSE IF bpp = 4 /\ h > 254
    THEN [p |-> p, w |-> w, h |-> h, ub |-> TRUE, hang |-> TRUE]
    ELSE LET t == IF bpp = 4 THEN Rotate4(p, w, h, fill)
                  ELSE [p |-> p, ub |-> FALSE]
             q == IF rot = 270
                  THEN MirrorBMP(FlipBMP(t.p, h, w, bpp), h, w, bpp)
                  ELSE t.p
             swap == rot \in {90, 270}
         IN  [p |-> q,
              w |-> IF swap THEN h ELSE w,
              h |-> IF swap THEN SwapThroughX(w) ELSE h,
              ub |-> t.ub \/ (rot = 270 /\ SrcPitch(h, bpp) * w > Size(p)),
              hang |-> FALSE]

-----------------------------------------------------------------------------
(* PlanePacker helpers *)

\* (a pitch that counts one byte too many for whole bytes)
OutPitchPlusOne(w) == (w \div 8) + 1
\* iPitch = (iWidth + 7)/8: bytes per line of a 1-bpp plane
OutPitch1(w) == (w + 7) \div 8
\* iPitch = (iWidth + 3)/4: bytes per line of the 2-bpp plane
OutPitch2(w) == (w + 3) \div 4

\* (the last byte left unshifted)
AdjustNone(u, xx) == u
\* uc <<= (7-(x&7)): adjust last odd byte
AdjustLast1(u, xx) == Shl8(u, 7 - (xx % 8))
\* uc <<= ((3-(x&3))*2)
AdjustLast2(u, xx) == Shl8(u, (3 - (xx % 4)) * 2)

\* (the planes exchanged)
PlaneBitSwapped(v, p) == Shr(v, 1 - p) % 2
\* ((ucPixel >> iPlane) & 1): add correct plane's bit
PlaneBit(v, p) == Shr(v, p) % 2

\* the planes a MakeC_* function writes
NPlanes(opt) == IF opt \in {OPTION_BW, OPTION_BWYR} THEN 1 ELSE 2

-----------------------------------------------------------------------------
(* Input images.  An image is chosen as pixels in visual row-major order    *)
(* (img.pix: n -> <<r, g, b>>, img.idx: n -> palette index) and laid out as *)
(* the raster the decoder hands over: B,G,R byte order for 24/32 bpp (as    *)
(* JPEGDraw stores it), one index byte for 8 bpp, high nibble first for     *)
(* 4 bpp, and for 1 bpp pixel x in bit (x & 7) of byte x >> 3, which is     *)
(* where GetGrayPixel, GetGrayPixel8 and the monochrome DitherBMP place it. *)

Black  == <<0, 0, 0>>
White  == <<255, 255, 255>>
Red    == <<255, 0, 0>>
Yellow == <<255, 255, 0>>
Orange == <<255, 100, 0>>

\* number of grid samples per channel, besides the thresholds of the code
NChan == 4
Grid == {(k * 255) \div NChan : k \in 0..NChan}
Edges == {32, 33, 63, 64, 70, 71, 79, 80, 89, 90, 99, 100, 127, 128, 191, 192}
Chan == Grid \cup Edges
\* palette indices given to the sampled pixel
PalIdx == {2, 5}

\* the visual row stored in raster row yy
VisRow(im, yy) == IF im.bottomUp THEN im.h - 1 - yy ELSE yy
PixAt(im, xx, yy) == im.pix[VisRow(im, yy) * im.w + xx]
IdxAt(im, xx, yy) == im.idx[VisRow(im, yy) * im.w + xx]
\* a 1 bpp pixel is set when it is white
BitAt(im, xx, yy) == IF PixAt(im, xx, yy) = White THEN 1 ELSE 0

\* the byte at column col of raster row yy; bytes past the pixels are padding
RasterByte(im, yy, col) ==
    CASE im.bpp = 24 ->
           IF col \div 3 < im.w
           THEN PixAt(im, col \div 3, yy)[3 - (col % 3)] ELSE 165
      [] im.bpp = 32 ->
           IF col \div 4 < im.w /\ col % 4 < 3
           THEN PixAt(im, col \div 4, yy)[3 - (col % 4)] ELSE 165
      [] im.bpp = 8 ->
           IF col < im.w THEN IdxAt(im, col, yy) ELSE 165
      [] im.bpp = 4 ->
           (IF 2 * col < im.w THEN 16 * IdxAt(im, 2 * col, yy) ELSE 160)
           + (IF 2 * col + 1 < im.w THEN IdxAt(im, 2 * col + 1, yy) ELSE 5)
      [] OTHER ->
           LET Pb(k) == IF 8 * col + k < im.w
                        THEN BitAt(im, 8 * col + k, yy) * Pow2(k)
                        ELSE (k % 2) * Pow2(k)
           IN  Pb(0) + Pb(1) + Pb(2) + Pb(3) + Pb(4) + Pb(5) + Pb(6) + Pb(7)

\* the bytes from one line of the image to the next, as the decoder stored
\* them: a BMP file's lines are padded to a dword; JPEGDraw stores line y at
\* 3 * (y * iWidth), or at y * iWidth for a grayscale image
Stride(im) ==
    IF im.jpeg THEN (im.w * im.bpp) \div 8 ELSE SrcPitch(im.w, im.bpp)

Raster(im) ==
    LET pitch == Stride(im)
    IN  [off \in 0..(pitch * im.h - 1) |->
            RasterByte(im, off \div pitch, off % pitch)]

\* the palette table of one channel (1 = r, 2 = g, 3 = b)
PaletteOf(im, ch) ==
    IF im.jpeg
    THEN (IF im.bpp = 8 THEN [k \in 0..255 |-> k] ELSE [k \in {} |-> 0])
    ELSE
    IF im.bpp \in {4, 8}
    THEN [k \in {im.idx[n] : n \in DOMAIN im.idx} |->
             LET n == CHOOSE m \in DOMAIN im.idx : im.idx[m] = k
             IN  im.pix[n][ch]]
    ELSE [k \in {} |-> 0]

Image(w, h, bpp, pix, idx, bottomUp) ==
    [w |-> w, h |-> h, bpp |-> bpp, pix |-> pix, idx |-> idx,
     bottomUp |-> bottomUp, jpeg |-> FALSE]

\* a decoded JPEG: 24 bpp, or 8 bpp gray with the palette ucRed[i] = i;
\* the first line stored is the top line
JPEGImage(w, h, bpp, pix) ==
    [w |-> w, h |-> h, bpp |-> bpp, pix |-> pix,
     idx |-> [n \in DOMAIN pix |-> IF bpp = 8 THEN pix[n][1] ELSE 0],
     bottomUp |-> FALSE, jpeg |-> TRUE]

\* the state after the input was decoded
Decoded(im) ==
    /\ img = im
    /\ iWidth = im.w /\ iHeight = im.h /\ iBpp = im.bpp
    /\ pData = Raster(im)
    /\ ucRed = PaletteOf(im, 1)
    /\ ucGreen = PaletteOf(im, 2)
    /\ ucBlue = PaletteOf(im, 3)

\* cy = pBMP[22] | pBMP[23]<<8: the low 16 bits of the height field, which
\* is in two's complement
ReadBMPHeight(biHeight) == biHeight % Pow2(16)
\* the height field of a BMP file: negative for an image stored top line
\* first
Declared(im) == IF im.bottomUp THEN im.h ELSE -im.h

\* the state after ReadBMP, for a file that holds im
DecodedBMP(im) ==
    /\ img = im
    /\ iWidth = im.w /\ iHeight = ReadBMPHeight(Declared(im)) /\ iBpp = im.bpp
    /\ pData = Raster(im)
    /\ ucRed = PaletteOf(im, 1)
    /\ ucGreen = PaletteOf(im, 2)
    /\ ucBlue = PaletteOf(im, 3)

NoPixel == /\ fn = "none" /\ px = 0 /\ ucPixel = 0
\* main(): bMirror = 0, bFlipv = 0, bInvert = 0, bDither = 0, iRotation = 0
NoOptions ==
    /\ bMirror = 0 /\ bFlipv = 0 /\ bInvert = 0 /\ bDither = 0
    /\ iRotation = 0
\* DitherBMP was not entered
NoDither ==
    /\ lFErr = 0 /\ errors = <<>> /\ cOut = 0 /\ pDest = <<>>
    /\ lFErrR = 0 /\ lFErrG = 0 /\ lFErrB = 0 /\ iErrors = <<>>
    /\ dlog = <<>>
\* RotateImage was not entered
NoRotate == pTemp = <<>> /\ sOff = 0 /\ dOff = 0 /\ junk = 0
NoPack ==
    /\ iPlane = 0 /\ x = 0 /\ y = 0 /\ uc = 0 /\ i = 0
    /\ iPitch = 0 /\ iTotal = 0 /\ codeLog = <<>> /\ out = <<>>

-----------------------------------------------------------------------------
(* Specification of the classifiers as functions of one pixel: a two-pixel  *)
(* row whose pixels are a sampled colour and a rotation of it, or a 1 bpp   *)
(* row of eight pixels, and one call of a classifier on one of its pixels.  *)

Rot(c) == <<c[2], c[3], c[1]>>

TwoPixels(c, bpp, k) ==
    Image(2, 1, bpp, [n \in 0..1 |-> IF n = 0 THEN c ELSE Rot(c)],
          [n \in 0..1 |-> IF bpp \in {4, 8} THEN (IF n = 0 THEN k ELSE 15 - k)
                          ELSE 0], FALSE)

BitRow(bits) ==
    Image(8, 1, 1, [n \in 0..7 |-> IF Bit(bits, n) = 1 THEN White ELSE Black],
          [n \in 0..7 |-> 0], FALSE)

InitPixel ==
    /\ pc = "pixel"
    /\ iOption = OPTION_BW
    /\ \/ \E r \in Chan, g \in Chan, b \in Chan, bpp \in {4, 8}, k \in PalIdx :
             Decoded(TwoPixels(<<r, g, b>>, bpp, k))
       \/ \E r \in Chan, g \in Chan, b \in Chan, bpp \in {24, 32} :
             Decoded(TwoPixels(<<r, g, b>>, bpp, 0))
       \/ \E bits \in 0..255 : Decoded(BitRow(bits))
    /\ NoPixel
    /\ NoPack
    /\ NoOptions
    /\ NoDither
    /\ NoRotate
    /\ calls = <<>>

\* a call of a function f, with what tells it from the others
Called(f, a) == [f |-> f, a |-> a]

Sampled(f, xx, v) ==
    /\ pc' = "sampled"
    /\ fn' = f /\ px' = xx /\ ucPixel' = v
    /\ UNCHANGED <<auxVars, img, iOption, rasterVars, packVars>>

CallGetGrayPixel ==
    /\ pc = "pixel"
    /\ \E xx \in 0..(iWidth - 1) :
          Sampled("gray", xx,
                  GetGrayPixel(xx, 0, pData, SrcPitch(iWidth, iBpp), iBpp))

CallGetRedPixel ==
    /\ pc = "pixel"
    /\ \E xx \in 0..(iWidth - 1) :
          Sampled("red", xx,
                  GetRedPixel(xx, 0, pData, SrcPitch(iWidth, iBpp), iBpp))

CallGetYellowPixel ==
    /\ pc = "pixel"
    /\ \E xx \in 0..(iWidth - 1) :
          Sampled("yellow", xx,
                  GetYellowPixel(xx, 0, pData, SrcPitch(iWidth, iBpp), iBpp))

CallGetBWYRPixel ==
    /\ pc = "pixel"
    /\ \E xx \in 0..(iWidth - 1) :
          Sampled("bwyr", xx,
                  GetBWYRPixel(xx, 0, pData, SrcPitch(iWidth, iBpp), iBpp))

\* the output format each colour classifier serves
FormatOf(f) ==
    CASE f = "red" -> OPTION_BWR
      [] f = "yellow" -> OPTION_BWY
      [] f = "bwyr" -> OPTION_BWYR
      [] OTHER -> OPTION_BW

\* MatchBestColor(&r1, &g1, &b1, iOutFormat) on the channel values of the
\* 24 or 32 bpp pixel a colour classifier was called on, read as DitherBMP
\* reads them (r = s[2]; g = s[1]; b = s[0]), for the format of that
\* classifier
CallMatchBestColor ==
    /\ pc = "sampled"
    /\ fn \in {"red", "yellow", "bwyr"}
    /\ iBpp \in {24, 32}
    /\ \E o \in {Shr(px * iBpp, 3)} :
          calls' = Append(calls,
                          Called("MatchBestColor",
                                 MatchBestColor(Byte(pData, o + 2),
                                                Byte(pData, o + 1),
                                                Byte(pData, o), FormatOf(fn))))
    /\ pc' = "matched"
    /\ UNCHANGED <<img, iOption, optVars, ditherVars, rotateVars, rasterVars,
                   pixelVars, packVars>>

NextPixel ==
    \/ CallGetGrayPixel
    \/ CallGetRedPixel
    \/ CallGetYellowPixel
    \/ CallGetBWYRPixel
    \/ CallMatchBestColor

SpecPixel == InitPixel /\ [][NextPixel]_vars

\* the colour of the pixel the classifier was called on
SampledRGB == img.pix[px]
SR == SampledRGB[1]
SG == SampledRGB[2]
SB == SampledRGB[3]
ColourDepth == iBpp \in {4, 8, 24, 32}

\* the green-weighted gray of the classifiers, (b + r + 2*g) / 4
GreenGray == (SB + SR + 2 * SG) \div 4
\* the red-weighted gray GetGrayPixel computes, (b + g + 2*r) / 4
RedGray == (SB + SG + 2 * SR) \div 4

-----------------------------------------------------------------------------
(* C1 as stated: without dithering the Black/White bit of a 4/8/24/32 bpp   *)
(* pixel is 1 exactly when the green-weighted gray (b + r + 2*g)/4 is at    *)
(* least 100.                                                               *)
C1_BitIffGrayAtLeast100 ==
    (pc = "sampled" /\ fn = "gray" /\ ColourDepth)
        => (BWBit(ucPixel) = 1 <=> GreenGray >= 100)

(* C1 amended: the Black/White bit MakeC_BW writes for a 4/8/24/32 bpp      *)
(* pixel is the high bit of GetGrayPixel's 2-bit code: it is 1 exactly when *)
(* the gray value GetGrayPixel computes, (b + g + 2*r)/4, is at least 128.  *)
C1_BitIffSimpleGrayAtLeast128 ==
    (pc = "sampled" /\ fn = "gray" /\ ColourDepth)
        => /\ BWBit(ucPixel) \in {0, 1}
           /\ BWBit(ucPixel) = 1 <=> RedGray >= 128

\* a mid gray pixel (100,100,100) sampled for Black/White comes out black
C1_Witness ==
    /\ pc = "sampled" /\ fn = "gray" /\ ColourDepth
    /\ SampledRGB = <<100, 100, 100>>
    /\ BWBit(ucPixel) = 0

-----------------------------------------------------------------------------
(* C2 as stated: GetRedPixel, with gray = (b + r + 2*g)/4: when r > b the   *)
(* code is black if gray < 100 and r < 80, else red if r-b > 32 and         *)
(* r-g > 32, else white; when r <= b it is white if gray >= 100 and black   *)
(* otherwise; pure red is red.                                              *)
C2_RedChainDominantOverB ==
    (pc = "sampled" /\ fn = "red" /\ ColourDepth)
        => /\ ucPixel =
                IF SR > SB
                THEN IF GreenGray < 100 /\ SR < 80 THEN 0
                     ELSE IF SR - SB > 32 /\ SR - SG > 32 THEN 2 ELSE 1
                ELSE IF GreenGray >= 100 THEN 1 ELSE 0
           /\ SampledRGB = Red => ucPixel = 2

(* C2 amended: the same chain, where "dominant" means r > g and r > b (red  *)
(* strictly greater than both other channels).                              *)
C2_RedChainDominantOverGB ==
    (pc = "sampled" /\ fn = "red" /\ ColourDepth)
        => /\ ucPixel =
                IF SR > SG /\ SR > SB
                THEN IF GreenGray < 100 /\ SR < 80 THEN 0
                     ELSE IF SR - SB > 32 /\ SR - SG > 32 THEN 2 ELSE 1
                ELSE IF GreenGray >= 100 THEN 1 ELSE 0
           /\ SampledRGB = Red => ucPixel = 2

\* pure red was classified, and came out red
C2_Witness ==
    /\ pc = "sampled" /\ fn = "red" /\ ColourDepth
    /\ SampledRGB = Red /\ ucPixel = 2

-----------------------------------------------------------------------------
(* C3: whatever the depth, palette and pixel, a classifier returns a code   *)
(* of its target: 0..2 from GetRedPixel and GetYellowPixel, 0..3 from       *)
(* GetBWYRPixel and GetGrayPixel.                                           *)
C3_CodeInRange ==
    pc = "sampled"
        => ucPixel \in (IF fn \in {"red", "yellow"} THEN 0..2 ELSE 0..3)

-----------------------------------------------------------------------------
(* C4: GetBWYRPixel, with gray = (b + r + 2*g)/4, in this order: if r > b   *)
(* or g > b, black if gray < 90 or (r < 80 and g < 80), else red (3) if     *)
(* r-b > 32 and r-g > 70, else yellow (2) if r-b > 32 and g-b > 32, else    *)
(* white (1); otherwise white if gray >= 100, else black.                   *)
C4_BWYRChain ==
    (pc = "sampled" /\ fn = "bwyr" /\ ColourDepth)
        => ucPixel =
             IF SR > SB \/ SG > SB
             THEN IF GreenGray < 90 \/ (SR < 80 /\ SG < 80) THEN 0
                  ELSE IF SR - SB > 32 /\ SR - SG > 70 THEN 3
                  ELSE IF SR - SB > 32 /\ SG - SB > 32 THEN 2
                  ELSE 1
             ELSE IF GreenGray >= 100 THEN 1 ELSE 0

\* an orange pixel with r-g between 32 and 70 was classified yellow
C4_Witness ==
    /\ pc = "sampled" /\ fn = "bwyr" /\ ColourDepth
    /\ SR - SG > 32 /\ SR - SG <= 70 /\ SR - SB > 32 /\ SG - SB > 32
    /\ ucPixel = 2

-----------------------------------------------------------------------------
(* C5: the 4-level gray code of a 4/8/24/32 bpp pixel is gray >> 6 with     *)
(* gray the green-weighted value (b + r + 2*g)/4.                           *)
C5_GrayCodeGreenWeighted ==
    (pc = "sampled" /\ fn = "gray" /\ ColourDepth)
        => ucPixel = GreenGray \div 64

-----------------------------------------------------------------------------
(* The program: main() on a bottom-up BMP, with no mirror, flip, invert,    *)
(* dither or rotation requested: normalise the row order, then write the    *)
(* planes with the MakeC_* function of the option.                          *)

\* bounds of the input images
MaxW == 9
MaxH == 2
\* the pixels of an image repeat a freely chosen run of this length
MaxFree == 2

Colours == <<Black, White, Red, Yellow, Orange>>
\* the palette index of each colour in 4 and 8 bpp images
KindIdx == <<3, 6, 9, 12, 15>>

Shapes == {wh \in (1..MaxW) \X (1..MaxH) : wh[1] * wh[2] <= MaxW}

Pattern(w, h, bpp, base) ==
    Image(w, h, bpp,
          [n \in 0..(w * h - 1) |->
              IF bpp = 1
              THEN (IF base[n % MaxFree] % 2 = 0 THEN White ELSE Black)
              ELSE Colours[base[n % MaxFree]]],
          [n \in 0..(w * h - 1) |->
              IF bpp \in {4, 8} THEN KindIdx[base[n % MaxFree]] ELSE 0],
          TRUE)

\* the 2x2 image of the end-to-end example
EndToEnd ==
    Image(2, 2, 24, [n \in 0..3 |-> <<Red, Black, White, Yellow>>[n + 1]],
          [n \in 0..3 |-> 0], TRUE)

Init ==
    /\ pc = "main"
    /\ iOption \in {OPTION_BW, OPTION_BWR, OPTION_BWY, OPTION_BWYR, OPTION_4GRAY}
    /\ \/ \E wh \in Shapes, bpp \in {1, 4, 8, 24, 32},
             base \in [0..(MaxFree - 1) -> 1..Len(Colours)] :
             Decoded(Pattern(wh[1], wh[2], bpp, base))
       \/ Decoded(EndToEnd)
    /\ NoPixel
    /\ NoPack
    /\ NoOptions
    /\ NoDither
    /\ NoRotate
    /\ calls = <<>>

\* the offset FlipBMP takes the byte at off from
FlipFrom(off, w, h, bpp) ==
    LET pitch == SrcPitch(w, bpp)
    IN  (h - 1 - (off \div pitch)) * pitch + (off % pitch)

\* the images main() is followed with beyond its first step have at most
\* this many lines
MaxLines == 8

\* if (iHeight > 0) FlipBMP(...); else iHeight = -iHeight;
\* a FlipBMP whose iPitch * iHeight bytes reach past the end of the buffer
\* may stop the process, or bring in what lies there
MainNormalize ==
    /\ pc = "main"
    /\ IF iHeight > 0
       THEN \E flipped \in {FlipBMP(pData, iWidth, iHeight, iBpp)} :
            \E inside \in {SrcPitch(iWidth, iBpp) * iHeight <= Size(pData)} :
            \E fill \in (IF inside THEN {0} ELSE Fill) :
            \E stopped \in (IF inside THEN {FALSE} ELSE {FALSE, TRUE}) :
               /\ pc' = IF stopped THEN "crash" ELSE "mirror"
               /\ pData' = IF stopped THEN pData
                           ELSE [off \in DOMAIN pData |->
                                    IF FlipFrom(off, iWidth, iHeight, iBpp)
                                          \in DOMAIN pData
                                    THEN flipped[off] ELSE fill]
               /\ iHeight' = iHeight
       ELSE /\ pData' = pData
            /\ iHeight' = -iHeight
            /\ pc' = "mirror"
    /\ UNCHANGED <<auxVars, img, iOption, iWidth, iBpp, ucRed, ucGreen, ucBlue,
                   pixelVars, packVars>>

\* a step of main() that replaces the raster and leaves the rest
MainStep(to, p) ==
    /\ pc' = to
    /\ pData' = p
    /\ UNCHANGED <<auxVars, img, iOption, iWidth, iHeight, iBpp, ucRed, ucGreen,
                   ucBlue, pixelVars, packVars>>

\* if (bMirror) MirrorBMP(&p[iOffBits], iWidth, iHeight, iBpp);
MainMirror ==
    /\ pc = "mirror"
    /\ iHeight <= MaxLines
    /\ MainStep("flipv", IF bMirror = 1
                         THEN MirrorBMP(pData, iWidth, iHeight, iBpp)
                         ELSE pData)

\* if (bFlipv) FlipBMP(&p[iOffBits], iWidth, iHeight, iBpp);
MainFlipv ==
    /\ pc = "flipv"
    /\ MainStep("invert", IF bFlipv = 1
                          THEN FlipBMP(pData, iWidth, iHeight, iBpp)
                          ELSE pData)

\* if (bInvert) every byte from iOffBits on is complemented
MainInvert ==
    /\ pc = "invert"
    /\ MainStep("dither", IF bInvert = 1 THEN InvertBMP(pData) ELSE pData)

\* uint8_t ucTemp[1024]; int32_t iErrors[1024*3]; (entries)
ucTempLen == 1024
iErrorsLen == 1024 * 3
Min(a, b) == IF a < b THEN a ELSE b
\* the entries of the two column buffers a pixel of column xx touches:
\* pErrors[-1..1] with pErrors = &errors[1 + xx], pErr[-3..5] with
\* pErr = &iErrors[3 + 3*xx]
MonoIdx(xx) == xx..(xx + 2)
ColourIdx(xx) == (3 * xx)..(3 * xx + 8)
\* a read and a store of a buffer entry; past the end of the array the read
\* gives what lies there and the store lands outside the buffer
ReadAt(buf, k) == IF k \in DOMAIN buf THEN {buf[k]} ELSE Fill
StoreAt(buf, k, v) == IF k \in DOMAIN buf THEN [buf EXCEPT ![k] = v] ELSE buf

\* if (bDither): the depth test, then the head of DitherBMP (memset of the
\* error buffers, malloc of pDest for Black/White); otherwise on to
\* RotateImage.  "error" is the return -1 after the message.
MainDither ==
    /\ pc = "dither"
    /\ IF bDither = 0
       THEN /\ pc' = "rotate"
            /\ UNCHANGED <<ditherVars, y>>
       ELSE IF iBpp < 24 /\ iOption \in {OPTION_BWR, OPTION_BWY, OPTION_BWYR}
       THEN /\ pc' = "error"
            /\ UNCHANGED <<ditherVars, y>>
       ELSE /\ pc' = "drow"
            /\ y' = 0
            \* of the two arrays the state keeps the entries the loops can
            \* reach: those up to column iWidth + 1
            /\ errors' = [k \in 0..(Min(iWidth + 2, ucTempLen) - 1) |-> 0]
            /\ iErrors' = [k \in 0..(Min(3 * (iWidth + 2), iErrorsLen) - 1)
                              |-> 0]
            /\ \E fill \in Fill :
                  pDest' = IF iOption = OPTION_BW
                           THEN [k \in 0..(SrcPitch(iWidth, 1) * iHeight - 1)
                                    |-> fill]
                           ELSE pDest
            /\ dlog' = <<>>
            /\ UNCHANGED <<lFErr, cOut, lFErrR, lFErrG, lFErrB>>
    /\ UNCHANGED <<img, iOption, optVars, rotateVars, calls, rasterVars, pixelVars,
                   iPlane, x, uc, i, iPitch, iTotal, codeLog, out>>

\* for (y=0; y<iHeight; y++) of DitherBMP: the carries start at 0; after
\* the last line the Black/White image replaces the raster at 1 bpp
DitherRow ==
    /\ pc = "drow"
    /\ IF y < iHeight
       THEN /\ lFErr' = 0 /\ cOut' = 0
            /\ lFErrR' = 0 /\ lFErrG' = 0 /\ lFErrB' = 0
            /\ x' = 0
            /\ pc' = IF 0 < iWidth THEN "dpix" ELSE "drow"
            /\ y' = IF 0 < iWidth THEN y ELSE y + 1
            /\ UNCHANGED <<pData, iBpp>>
       ELSE /\ pc' = "rotate"
            /\ pData' = IF iOption = OPTION_BW THEN pDest ELSE pData
            /\ iBpp' = IF iOption = OPTION_BW THEN 1 ELSE iBpp
            /\ UNCHANGED <<lFErr, cOut, lFErrR, lFErrG, lFErrB, x, y>>
    /\ UNCHANGED <<img, iOption, optVars, rotateVars, calls, errors, pDest, iErrors, dlog,
                   iWidth, iHeight, ucRed, ucGreen, ucBlue, pixelVars,
                   iPlane, uc, i, iPitch, iTotal, codeLog, out>>

\* the pixel just handled was (x, y): on to the next, or to the next line
DitherAdvance ==
    /\ x' = x + 1
    /\ IF x + 1 < iWidth
       THEN pc' = "dpix" /\ y' = y
       ELSE pc' = "drow" /\ y' = y + 1

\* what DitherBMP computed for one pixel, channel by channel
Diffused(src, carry, adj, q, v, e) ==
    [x |-> x, y |-> y, src |-> src, carry |-> carry, adj |-> adj, q |-> q,
     v |-> v, e |-> e]

\* the body of the x loop of the Black/White branch, with the store of the
\* partial byte that follows the last pixel of a line
DitherMonoPixel ==
    /\ pc = "dpix" /\ iOption = OPTION_BW
    /\ \E g \in {GetGrayPixel8(x, y, pData, SrcPitch(iWidth, iBpp), iBpp)} :
       \E cNew \in {IF Tone(g) + lFErr > 255 THEN 255 ELSE Tone(g) + lFErr} :
       \E e \in {FSParts(cNew - (cNew - (cNew % 128)))} :
       \E ahead \in ReadAt(errors, x + 2) :
       \E stopped \in (IF MonoIdx(x) \subseteq DOMAIN errors THEN {FALSE}
                       ELSE {FALSE, TRUE}) :
          IF stopped
          THEN /\ pc' = "crash"
               /\ UNCHANGED <<x, y, cOut, pDest, lFErr, errors, dlog>>
          ELSE
          LET iDestPitch == SrcPitch(iWidth, 1)
              top   == cNew - (cNew % 128)
              cOut1 == Or8(Shr(cOut, 1), top)
              full  == x % 8 = 7
              cOut2 == IF full THEN 0 ELSE cOut1
              part  == x + 1 = iWidth /\ iWidth % 8 # 0
              cOut3 == IF part THEN Shl8(cOut2, 8 - (iWidth % 8)) ELSE cOut2
          IN  /\ cOut' = cOut3
              /\ pDest' = IF full
                          THEN [pDest EXCEPT ![y * iDestPitch + (x \div 8)] = cOut1]
                          ELSE IF part
                          THEN [pDest EXCEPT ![y * iDestPitch + (iWidth \div 8)]
                                                 = 255 - cOut3]
                          ELSE pDest
              /\ lFErr' = e[1] + ahead
              /\ \E e3 \in {(Byte(errors, x + 1) + e[3]) % 256} :
                 \E e4 \in {(Byte(errors, x) + e[4]) % 256} :
                    errors' = StoreAt(StoreAt(StoreAt(errors, x + 2, e[2] % 256),
                                              x + 1, e3), x, e4)
              /\ dlog' = Append(dlog, Diffused(<<g>>, <<lFErr>>, <<cNew>>,
                                               <<top>>, <<cNew - top>>, <<e>>))
              /\ DitherAdvance
    /\ UNCHANGED <<img, iOption, optVars, rotateVars, calls, lFErrR, lFErrG, lFErrB,
                   iErrors, rasterVars, pixelVars, iPlane, uc, i, iPitch,
                   iTotal, codeLog, out>>

\* the store of one channel's parts: pErr[3+c] = e2; pErr[c] += e3;
\* pErr[c-3] += e4; with pErr = &iErrors[3 + 3*x]
Spread(buf, xx, c, e) ==
    StoreAt(StoreAt(StoreAt(buf, 3 * xx + 6 + c, e[2]),
                    3 * xx + 3 + c, Byte(buf, 3 * xx + 3 + c) + e[3]),
            3 * xx + c, Byte(buf, 3 * xx + c) + e[4])

\* the body of the x loop of the colour branch; a pixel that lies past the
\* end of the buffer may stop the process, or be read and left
DitherColorPixel ==
    /\ pc = "dpix" /\ iOption # OPTION_BW
    /\ \E s \in {y * SrcPitch(iWidth, iBpp) + x * (IF iBpp = 32 THEN 4 ELSE 3)} :
       \E src \in {<<Byte(pData, s + 2), Byte(pData, s + 1), Byte(pData, s)>>} :
       \E adj \in {<<Clamp255(src[1] + lFErrR), Clamp255(src[2] + lFErrG),
                     Clamp255(src[3] + lFErrB)>>} :
       \E q \in {MatchBestColor(adj[1], adj[2], adj[3], iOption)} :
       \E e \in {<<FSParts(src[1] - q[1]), FSParts(src[2] - q[2]),
                   FSParts(src[3] - q[3])>>} :
       \E ahead \in ReadAt(iErrors, 3 * x + 6) \X ReadAt(iErrors, 3 * x + 7)
                       \X ReadAt(iErrors, 3 * x + 8) :
       \E stopped \in (IF /\ s + 2 \in DOMAIN pData
                          /\ ColourIdx(x) \subseteq DOMAIN iErrors
                       THEN {FALSE} ELSE {FALSE, TRUE}) :
          IF stopped
          THEN /\ pc' = "crash"
               /\ UNCHANGED <<x, y, lFErrR, lFErrG, lFErrB, iErrors, dlog,
                              pData>>
          ELSE /\ DitherAdvance
               /\ lFErrR' = e[1][1] + ahead[1]
               /\ lFErrG' = e[2][1] + ahead[2]
               /\ lFErrB' = e[3][1] + ahead[3]
               /\ iErrors' = Spread(Spread(Spread(iErrors, x, 0, e[1]),
                                           x, 1, e[2]), x, 2, e[3])
               /\ dlog' = Append(dlog,
                     Diffused(src, <<lFErrR, lFErrG, lFErrB>>, adj, q,
                              <<src[1] - q[1], src[2] - q[2], src[3] - q[3]>>,
                              e))
               /\ pData' = [k \in DOMAIN pData |->
                               IF k = s + 2 THEN q[1]
                               ELSE IF k = s + 1 THEN q[2]
                               ELSE IF k = s THEN q[3]
                               ELSE pData[k]]
    /\ UNCHANGED <<img, iOption, optVars, rotateVars, calls, lFErr, errors, cOut, pDest,
                   iWidth, iHeight, iBpp, ucRed, ucGreen, ucBlue, pixelVars,
                   iPlane, uc, i, iPitch, iTotal, codeLog, out>>

\* RotateImage(iRotation, &p[iOffBits], &iWidth, &iHeight, iBpp); then the
\* output file is created and its head written
MainRotate ==
    /\ pc = "rotate"
    /\ \E fill \in Fill :
          LET r == RotateImage(iRotation, pData, iWidth, iHeight, iBpp, fill)
          IN  \E stopped \in (IF r.hang THEN {TRUE}
                              ELSE IF r.ub THEN {FALSE, TRUE}
                              ELSE {FALSE}) :
                 IF stopped
                 THEN /\ pc' = "crash"
                      /\ UNCHANGED <<pData, iWidth, iHeight>>
                 ELSE /\ pc' = "makec"
                      /\ pData' = r.p
                      /\ iWidth' = r.w
                      /\ iHeight' = r.h
    /\ UNCHANGED <<auxVars, img, iOption, iBpp, ucRed, ucGreen, ucBlue,
                   pixelVars, packVars>>

\* the head of a MakeC_* function: pitch and total, as written to the output
Begin(pitch) ==
    /\ pc = "makec"
    /\ iPitch' = pitch
    /\ iTotal' = pitch * iHeight
    /\ iPlane' = 0
    /\ out' = <<>>
    /\ codeLog' = <<>>
    /\ pc' = "plane"
    /\ UNCHANGED <<auxVars, img, iOption, rasterVars, pixelVars, x, y, uc, i>>

MakeC_BW_Begin    == iOption = OPTION_BW /\ Begin(OutPitch1(iWidth))
MakeC_3CLR_Begin  == iOption \in {OPTION_BWR, OPTION_BWY} /\ Begin(OutPitch1(iWidth))
MakeC_4CLR_Begin  == iOption = OPTION_BWYR /\ Begin(OutPitch2(iWidth))
MakeC_4GRAY_Begin == iOption = OPTION_4GRAY /\ Begin(OutPitch1(iWidth))

\* for (iPlane=0; iPlane<2; iPlane++) { iLine = i = iIn = 0; ...
\* (MakeC_BW and MakeC_4CLR run the body once)
PlaneLoop ==
    /\ pc = "plane"
    /\ IF iPlane < NPlanes(iOption)
       THEN /\ i' = 0 /\ y' = 0
            /\ out' = Append(out, <<>>)
            /\ codeLog' = Append(codeLog, <<>>)
            /\ pc' = "row"
       ELSE /\ pc' = "done"
            /\ UNCHANGED <<i, y, out, codeLog>>
    /\ UNCHANGED <<auxVars, img, iOption, rasterVars, pixelVars, iPlane, x, uc,
                   iPitch, iTotal>>

\* for (y=0; y<iHeight; y++) { uc = 0; for (x=0; ...
RowLoop ==
    /\ pc = "row"
    /\ IF y < iHeight
       THEN /\ uc' = 0 /\ x' = 0
            /\ pc' = IF 0 < iWidth THEN "col" ELSE "row"
            /\ y' = IF 0 < iWidth THEN y ELSE y + 1
            /\ iPlane' = iPlane
       ELSE /\ iPlane' = iPlane + 1
            /\ pc' = "plane"
            /\ UNCHANGED <<uc, x, y>>
    /\ UNCHANGED <<auxVars, img, iOption, rasterVars, pixelVars, i, iPitch, iTotal,
                   codeLog, out>>

\* the body of the x loop after the pixel v was shifted into the byte (u1):
\* a byte is written when it is whole or the line ends (u2: adjusted)
PixelBody(v, u1, whole, u2) ==
    /\ ucPixel' = v
    /\ codeLog' = [codeLog EXCEPT ![iPlane + 1] = Append(@, v)]
    /\ IF whole
       THEN /\ out' = [out EXCEPT ![iPlane + 1] = Append(@, u2)]
            /\ i' = i + 1
            /\ uc' = 0
       ELSE /\ uc' = u1
            /\ UNCHANGED <<out, i>>
    /\ x' = x + 1
    /\ IF x + 1 < iWidth
       THEN pc' = "col" /\ y' = y
       ELSE pc' = "row" /\ y' = y + 1
    /\ UNCHANGED <<auxVars, img, iOption, rasterVars, fn, px, iPlane, iPitch, iTotal>>

MakeC_BW_Pixel ==
    /\ pc = "col" /\ iOption = OPTION_BW
    /\ LET v  == GetGrayPixel(x, y, pData, SrcPitch(iWidth, iBpp), iBpp)
           u1 == Or8(Shl8(uc, 1), BWBit(v))
       IN  PixelBody(v, u1, x % 8 = 7 \/ x = iWidth - 1,
                     IF x % 8 # 7 THEN AdjustLast1(u1, x) ELSE u1)

MakeC_3CLR_Pixel ==
    /\ pc = "col" /\ iOption \in {OPTION_BWR, OPTION_BWY}
    /\ LET v  == IF iOption = OPTION_BWR
                 THEN GetRedPixel(x, y, pData, SrcPitch(iWidth, iBpp), iBpp)
                 ELSE GetYellowPixel(x, y, pData, SrcPitch(iWidth, iBpp), iBpp)
           u1 == Or8(Shl8(uc, 1), PlaneBit(v, iPlane))
       IN  PixelBody(v, u1, x % 8 = 7 \/ x = iWidth - 1,
                     IF x % 8 # 7 THEN AdjustLast1(u1, x) ELSE u1)

MakeC_4CLR_Pixel ==
    /\ pc = "col" /\ iOption = OPTION_BWYR
    /\ LET v  == GetBWYRPixel(x, y, pData, SrcPitch(iWidth, iBpp), iBpp)
           u1 == Or8(Shl8(uc, 2), v)
       IN  PixelBody(v, u1, x % 4 = 3 \/ x = iWidth - 1,
                     IF x % 4 # 3 THEN AdjustLast2(u1, x) ELSE u1)

MakeC_4GRAY_Pixel ==
    /\ pc = "col" /\ iOption = OPTION_4GRAY
    /\ LET v  == GetGrayPixel(x, y, pData, SrcPitch(iWidth, iBpp), iBpp)
           u1 == Or8(Shl8(uc, 1), PlaneBit(v, iPlane))
       IN  PixelBody(v, u1, x % 8 = 7 \/ x = iWidth - 1,
                     IF x % 8 # 7 THEN AdjustLast1(u1, x) ELSE u1)

Next ==
    \/ MainNormalize
    \/ MainMirror
    \/ MainFlipv
    \/ MainInvert
    \/ MainDither
    \/ MainRotate
    \/ MakeC_BW_Begin
    \/ MakeC_3CLR_Begin
    \/ MakeC_4CLR_Begin
    \/ MakeC_4GRAY_Begin
    \/ PlaneLoop
    \/ RowLoop
    \/ MakeC_BW_Pixel
    \/ MakeC_3CLR_Pixel
    \/ MakeC_4CLR_Pixel
    \/ MakeC_4GRAY_Pixel

Spec == Init /\ [][Next]_vars

-----------------------------------------------------------------------------
(* Reading the output back.  Pixel n (0-based, row-major) of the plane      *)
(* being written is pixel (n % iWidth) of row (n \div iWidth); codeLog      *)
(* holds the value the classifier returned for it.                          *)

Packing == pc \in {"plane", "row", "col", "done"}
Logged == {pn \in (1..Len(codeLog)) \X (0..(iWidth * iHeight - 1)) :
              pn[2] < Len(codeLog[pn[1]])}
CodeOf(pn) == codeLog[pn[1]][pn[2] + 1]
RowOf(pn) == pn[2] \div iWidth
ColOf(pn) == pn[2] % iWidth
\* the colour of the pixel in the input image, rows counted from the top
ColourOf(pn) == img.pix[pn[2]]

\* the byte of the plane that holds the pixel, with `per` pixels per byte
ByteIndex(pn, per) == RowOf(pn) * iPitch + (ColOf(pn) \div per) + 1
Written(pn, per) == ByteIndex(pn, per) <= Len(out[pn[1]])
\* one bit per pixel, most significant bit first
Unpack1(pn) == (out[pn[1]][ByteIndex(pn, 8)] \div (2 ^ (7 - (ColOf(pn) % 8)))) % 2
\* two bits per pixel, most significant pair first
Unpack2(pn) == (out[pn[1]][ByteIndex(pn, 4)] \div (4 ^ (3 - (ColOf(pn) % 4)))) % 4

PixelsPerByte == IF iOption = OPTION_BWYR THEN 4 ELSE 8
\* the lines of plane p (1-based) written so far in full
RowsWritten(p) == IF iPitch = 0 THEN {} ELSE 0..((Len(out[p]) \div iPitch) - 1)
\* the bits of the last byte of a line that hold no pixel
UnusedBits == 8 * iPitch - iWidth * (8 \div PixelsPerByte)

-----------------------------------------------------------------------------
-----------------------------------------------------------------------------
(* C7: every line contributes ceil(width/8) bytes to a 1-bit plane, or      *)
(* ceil(width/4) to the 2-bit plane; a line starts with an empty byte; and  *)
(* each plane ends with the declared total, bytes per line * height.        *)
C7_PlaneSizes ==
    Packing
        => /\ iPitch * PixelsPerByte >= iWidth
           /\ (iPitch - 1) * PixelsPerByte < iWidth
           /\ iTotal = iPitch * iHeight
           /\ (pc = "col" /\ x = 0)
                 => uc = 0 /\ Len(out[iPlane + 1]) = y * iPitch
           /\ pc \in {"row", "col"} => i = Len(out[iPlane + 1])
           /\ pc = "row" => Len(out[iPlane + 1]) = y * iPitch
           /\ pc = "done"
                 => /\ Len(out) = (IF iOption \in {OPTION_BW, OPTION_BWYR}
                                   THEN 1 ELSE 2)
                    /\ \A p \in 1..Len(out) : Len(out[p]) = iTotal

\* two planes of a 8-pixel-wide image are complete, one byte per line each
C7_Witness ==
    /\ pc = "done" /\ iWidth = 8 /\ iHeight = 1
    /\ Len(out) = 2 /\ Len(out[2]) = 1

-----------------------------------------------------------------------------
(* C8: reading codeBits per pixel, most significant first, from the bytes   *)
(* of each line gives back what was packed (the 2-bit code into the packed  *)
(* plane, the plane's bit of the code into a 1-bit plane), and the bits of  *)
(* a line's last byte that hold no pixel are zero.                          *)
C8_RoundTrip ==
    Packing
        => /\ \A pn \in Logged :
                 Written(pn, PixelsPerByte)
                    => CASE iOption = OPTION_BWYR -> Unpack2(pn) = CodeOf(pn)
                         [] iOption = OPTION_BW -> Unpack1(pn) = CodeOf(pn) \div 2
                         [] OTHER ->
                              Unpack1(pn) = (CodeOf(pn) \div (2 ^ (pn[1] - 1))) % 2
           /\ \A p \in 1..Len(out) : \A r \in RowsWritten(p) :
                 out[p][(r + 1) * iPitch] % (2 ^ UnusedBits) = 0

\* a 3-pixel line packed two bits a pixel, its last pixel red (3)
C8_Witness ==
    /\ pc = "done" /\ iOption = OPTION_BWYR /\ iWidth = 3
    /\ CodeOf(<<1, 2>>) = 3 /\ Unpack2(<<1, 2>>) = 3
    /\ out[1][1] % 4 = 0

-----------------------------------------------------------------------------
(* C9: in two-plane output plane 0 holds bit 0 and plane 1 holds bit 1 of   *)
(* the code of each pixel; for Black/White/Red the plane-1 bit is set       *)
(* exactly for red pixels and the plane-0 bit exactly for white pixels.     *)
C9_PlaneBits ==
    (Packing /\ iOption \in {OPTION_BWR, OPTION_BWY, OPTION_4GRAY})
        => \A pn \in Logged :
              Written(pn, 8)
                 => /\ pn[1] = 1 => Unpack1(pn) = CodeOf(pn) % 2
                    /\ pn[1] = 2 => Unpack1(pn) = (CodeOf(pn) \div 2) % 2
                    /\ (iOption = OPTION_BWR /\ pn[1] = 1)
                          => (Unpack1(pn) = 1 <=> CodeOf(pn) = 1)
                    /\ (iOption = OPTION_BWR /\ pn[1] = 2)
                          => (Unpack1(pn) = 1 <=> CodeOf(pn) = 2)
                    /\ (iOption = OPTION_BWR /\ ColourDepth /\ ColourOf(pn) = Red)
                          => Unpack1(pn) = pn[1] - 1

\* a red pixel of a Black/White/Red run: 0 in plane 0, 1 in plane 1
C9_Witness ==
    /\ pc = "done" /\ iOption = OPTION_BWR /\ ColourDepth
    /\ img.pix[0] = Red
    /\ Unpack1(<<1, 0>>) = 0 /\ Unpack1(<<2, 0>>) = 1

-----------------------------------------------------------------------------
(* C10: the 2x2 24 bpp image red, black / white, yellow (from the top),     *)
(* converted to Black/White/Red without dithering: codes red (2), black     *)
(* (0), white (1) and white for the yellow pixel; two bytes per plane, one  *)
(* per line, the pixels in the top two bits and the six low bits zero:      *)
(* plane 0 = 0x00, 0xC0 and plane 1 = 0x80, 0x00.                           *)
C10_EndToEnd ==
    (pc = "done" /\ img = EndToEnd /\ iOption = OPTION_BWR)
        => /\ codeLog = << <<2, 0, 1, 1>>, <<2, 0, 1, 1>> >>
           /\ iPitch = 1 /\ iTotal = 2
           /\ out = << <<0, 192>>, <<128, 0>> >>
           /\ \A p \in 1..2 : \A k \in 1..2 : out[p][k] % 64 = 0

\* the example image was converted to the end
C10_Witness ==
    /\ pc = "done" /\ img = EndToEnd /\ iOption = OPTION_BWR
    /\ Len(out) = 2 /\ out[2][1] = 128

-----------------------------------------------------------------------------
(* MirrorBMP and RotateImage as functions of a raster: a small image of any  *)
(* depth, or a long line or column, and a run of calls of one of them with   *)
(* the width, height and depth the previous call left.                       *)

\* bounds of the rasters handed to the transforms
MaxXW == 5
MaxXH == 3
\* 1 bpp lines of whole bytes, and sizes around the range of a uint8_t
ByteLines == {<<8, 1>>, <<16, 2>>, <<24, 1>>}
LongLines == {<<255, 1>>, <<256, 1>>, <<300, 1>>, <<1, 255>>}
XShapes == ((1..MaxXW) \X (1..MaxXH)) \cup ByteLines

InitXform ==
    /\ pc = "xform"
    /\ iOption = OPTION_BW
    /\ \/ \E wh \in XShapes, bpp \in {1, 4, 8, 24, 32},
             base \in [0..(MaxFree - 1) -> 1..Len(Colours)] :
             Decoded(Pattern(wh[1], wh[2], bpp, base))
       \/ \E wh \in LongLines, bpp \in {4, 8} :
             Decoded(Pattern(wh[1], wh[2], bpp, [k \in 0..(MaxFree - 1) |-> k + 1]))
    /\ NoPixel
    /\ NoPack
    /\ NoOptions
    /\ NoDither
    /\ NoRotate
    /\ calls = <<>>

\* MirrorBMP(pPixels, iWidth, iHeight, iBpp), up to twice
CallMirrorBMP ==
    /\ pc = "xform"
    /\ Len(calls) < 2
    /\ \A k \in 1..Len(calls) : calls[k].f = "MirrorBMP"
    /\ pData' = MirrorBMP(pData, iWidth, iHeight, iBpp)
    /\ calls' = Append(calls, Called("MirrorBMP", 0))
    /\ UNCHANGED <<pc, img, iOption, optVars, rotateVars, ditherVars, iWidth, iHeight,
                   iBpp, ucRed, ucGreen, ucBlue, pixelVars, packVars>>

\* FlipBMP(pPixels, iWidth, iHeight, iBpp), once
CallFlipBMP ==
    /\ pc = "xform"
    /\ calls = <<>>
    /\ pData' = FlipBMP(pData, iWidth, iHeight, iBpp)
    /\ calls' = Append(calls, Called("FlipBMP", 0))
    /\ UNCHANGED <<pc, img, iOption, optVars, rotateVars, ditherVars, iWidth, iHeight,
                   iBpp, ucRed, ucGreen, ucBlue, pixelVars, packVars>>

\* what a call of RotateImage leaves: the outcome r, or a process that
\* stopped where the call ran outside its buffers or did not return
Rotated(rot, r, stopped) ==
    /\ calls' = Append(calls, Called("RotateImage", rot))
    /\ IF stopped
       THEN /\ pc' = "crash"
            /\ UNCHANGED <<pData, iWidth, iHeight>>
       ELSE /\ pc' = pc
            /\ pData' = r.p
            /\ iWidth' = r.w
            /\ iHeight' = r.h
    /\ UNCHANGED <<img, iOption, optVars, rotateVars, ditherVars, iBpp, ucRed, ucGreen,
                   ucBlue, pixelVars, packVars>>

\* RotateImage(rot, pPixels, &iWidth, &iHeight, iBpp), up to four times
CallRotateImage ==
    /\ pc = "xform"
    /\ Len(calls) < 4
    /\ \E rot \in {0, 90, 180, 270}, fill \in Fill :
          /\ \A k \in 1..Len(calls) : calls[k] = Called("RotateImage", rot)
          /\ LET r == RotateImage(rot, pData, iWidth, iHeight, iBpp, fill)
             IN  \E stopped \in (IF r.hang THEN {TRUE}
                                 ELSE IF r.ub THEN {FALSE, TRUE}
                                 ELSE {FALSE}) :
                    Rotated(rot, r, stopped)

NextXform ==
    \/ CallMirrorBMP
    \/ CallFlipBMP
    \/ CallRotateImage

SpecXform == InitXform /\ [][NextXform]_vars

\* the palette index of pixel (xx, yy) of a 4 bpp raster p of width w
Nibble(p, w, xx, yy) == FetchRGB(xx, yy, p, SrcPitch(w, 4), 4).uc
RunOf(f, a, n) == [k \in 1..n |-> Called(f, a)]

-----------------------------------------------------------------------------
-----------------------------------------------------------------------------
(* C15: for a 4 bpp raster of any width and height, four successive calls   *)
(* of RotateImage with 90 degrees that all return restore the width, the    *)
(* height and every pixel of the image.                                     *)
C15_FourRotations ==
    (pc = "xform" /\ iBpp = 4 /\ calls = RunOf("RotateImage", 90, 4))
        => /\ iWidth = img.w /\ iHeight = img.h
           /\ \A xx \in 0..(img.w - 1), yy \in 0..(img.h - 1) :
                 Nibble(pData, iWidth, xx, yy)
                    = Nibble(Raster(img), img.w, xx, yy)

-----------------------------------------------------------------------------
(* C16: a call of RotateImage with 90 or 270 degrees that returns leaves    *)
(* *iWidth = h and *iHeight = w for every width w and height h up to 65535; *)
(* with 0 or 180 degrees it leaves both as they were.                       *)
C16_SwapExact ==
    (pc = "xform" /\ Len(calls) = 1 /\ calls[1].f = "RotateImage")
        => IF calls[1].a \in {90, 270}
           THEN iWidth = img.h /\ iHeight = img.w
           ELSE iWidth = img.w /\ iHeight = img.h

-----------------------------------------------------------------------------
(* DitherBMP as main() calls it: a small raster, top line first, of any     *)
(* depth, for each output format, with dithering requested.                 *)

\* bounds of the dithered rasters
MaxDW == 3
MaxDH == 2
\* lines that fill a byte of the Black/White destination, and one more pixel
DByteLines == {<<8, 1>>, <<9, 1>>}
DShapes == ((1..MaxDW) \X (1..MaxDH)) \cup DByteLines
\* a line one pixel longer than the column buffers of DitherBMP can take
DLongLines == {<<ucTempLen - 1, 1>>}

DColours == <<Black, White, Orange, <<200, 200, 200>>, <<120, 120, 120>>,
              <<30, 60, 200>> >>

\* an image whose pixels repeat the colours cols[base[0]], cols[base[1]], ...
\* (palette index = position in cols; at 1 bpp the odd positions are white)
PatternOf(cols, w, h, bpp, base) ==
    Image(w, h, bpp,
          [n \in 0..(w * h - 1) |->
              IF bpp = 1
              THEN (IF base[n % MaxFree] % 2 = 0 THEN White ELSE Black)
              ELSE cols[base[n % MaxFree]]],
          [n \in 0..(w * h - 1) |->
              IF bpp \in {4, 8} THEN base[n % MaxFree] ELSE 0],
          FALSE)

InitDither ==
    /\ pc = "dither"
    /\ iOption \in {OPTION_BW, OPTION_BWR, OPTION_BWY, OPTION_BWYR, OPTION_4GRAY}
    /\ \/ \E wh \in DShapes, bpp \in {1, 4, 8, 24, 32},
             base \in [0..(MaxFree - 1) -> 1..Len(DColours)] :
             Decoded(PatternOf(DColours, wh[1], wh[2], bpp, base))
       \/ \E wh \in DLongLines :
             /\ iOption \in {OPTION_BW, OPTION_BWR}
             /\ Decoded(PatternOf(DColours, wh[1], wh[2], 24,
                                  [k \in 0..(MaxFree - 1) |-> k + 1]))
    /\ NoPixel
    /\ NoPack
    /\ bMirror = 0 /\ bFlipv = 0 /\ bInvert = 0 /\ bDither = 1 /\ iRotation = 0
    /\ NoDither
    /\ NoRotate
    /\ calls = <<>>

NextDither ==
    \/ MainDither
    \/ DitherRow
    \/ DitherMonoPixel
    \/ DitherColorPixel

SpecDither == InitDither /\ [][NextDither]_vars

Abs(v) == IF v < 0 THEN -v ELSE v
Sum4(e) == e[1] + e[2] + e[3] + e[4]
\* the channels DitherBMP diffuses: one for Black/White, three for colour
Channels == IF iOption = OPTION_BW THEN {1} ELSE {1, 2, 3}
\* the sum of F over lo..hi, by halves
RECURSIVE SumRange(_, _, _)
SumRange(F(_), lo, hi) ==
    IF lo > hi THEN 0
    ELSE IF lo = hi THEN F(lo)
    ELSE SumRange(F, lo, (lo + hi) \div 2)
            + SumRange(F, (lo + hi) \div 2 + 1, hi)
\* the sum of F over a finite set S of integers
SumOver(F(_), S) ==
    IF S = {} THEN 0
    ELSE LET G(k) == IF k \in S THEN F(k) ELSE 0
         IN  SumRange(G, CHOOSE m \in S : \A n \in S : m <= n,
                         CHOOSE m \in S : \A n \in S : m >= n)
\* the pixels of line yy handled so far
LineOf(yy) == {k \in 1..Len(dlog) : dlog[k].y = yy}
\* the column buffer of channel c: what it holds, taken as a sum
Pending(c) ==
    IF iOption = OPTION_BW
    THEN LET E(k) == errors[k] IN SumOver(E, DOMAIN errors)
    ELSE LET E(k) == Tab(iErrors, 3 * k + c - 1) IN SumOver(E, 0..(iWidth + 1))
Dithering == pc \in {"drow", "dpix"} \/ (pc = "rotate" /\ dlog # <<>>)

-----------------------------------------------------------------------------
(* C12: the four parts DitherBMP computes of a residual v, positive or      *)
(* negative, add up to v within 1 (they are 2 * (v >> 1)); they are the     *)
(* parts it stores; and after the first line what the column buffer holds   *)
(* plus what was carried forward is the line's total residual within 1 per  *)
(* pixel, in each channel.                                                  *)
C12_Conservation ==
    /\ \A v \in (-255)..255 : Abs(Sum4(FSParts(v)) - v) <= 1
    /\ Dithering =>
          /\ \A k \in 1..Len(dlog) : \A c \in 1..Len(dlog[k].v) :
                /\ dlog[k].e[c] = FSParts(dlog[k].v[c])
                /\ Abs(Sum4(dlog[k].e[c]) - dlog[k].v[c]) <= 1
          /\ (pc = "drow" /\ y = 1) =>
                \A c \in Channels :
                   LET V(k) == dlog[k].v[c]
                       F(k) == dlog[k].e[c][1]
                   IN  Abs(Pending(c) + SumOver(F, LineOf(0))
                           - SumOver(V, LineOf(0))) <= iWidth

\* a line of three pixels was dithered in colour, a negative odd residual
\* among them, and its parts are in the column buffer
C12_Witness ==
    /\ pc = "drow" /\ y = 1 /\ iWidth = 3 /\ iOption = OPTION_BWR
    /\ \E k \in LineOf(0) : dlog[k].v[1] < 0 /\ dlog[k].v[1] % 2 = 1
    /\ Pending(1) # 0

-----------------------------------------------------------------------------
(* C13: after colour dithering to Black/White/Red, Black/White/Yellow or    *)
(* Black/White/Yellow/Red every pixel holds the colour MatchBestColor chose *)
(* for it, one of black, white, red, yellow, and the classifier of the same *)
(* target returns the code of that colour for it.                           *)
C13_Lossless ==
    (/\ pc = "rotate" /\ iOption \in {OPTION_BWR, OPTION_BWY, OPTION_BWYR}
     /\ Len(dlog) = iWidth * iHeight /\ dlog # <<>>)
        => \A k \in 1..Len(dlog) :
              LET d == dlog[k]
                  pitch == SrcPitch(iWidth, iBpp)
                  f == FetchRGB(d.x, d.y, pData, pitch, iBpp)
              IN  /\ <<f.r, f.g, f.b>> = d.q
                  /\ d.q \in {Black, White, Red, Yellow}
                  /\ (IF iOption = OPTION_BWR
                      THEN GetRedPixel(d.x, d.y, pData, pitch, iBpp)
                      ELSE IF iOption = OPTION_BWY
                      THEN GetYellowPixel(d.x, d.y, pData, pitch, iBpp)
                      ELSE GetBWYRPixel(d.x, d.y, pData, pitch, iBpp))
                     = (CASE d.q = Black -> 0
                          [] d.q = White -> 1
                          [] d.q = Yellow -> 2
                          [] OTHER -> IF iOption = OPTION_BWYR THEN 3 ELSE 2)

-----------------------------------------------------------------------------
(* C19: in Black/White and in colour dithering the residual diffused for a  *)
(* pixel and channel is adjusted - output: the clamped (source + carry)     *)
(* value that was quantized, minus the quantized value.                     *)
C19_Residual ==
    Dithering
        => \A k \in 1..Len(dlog) : \A c \in 1..Len(dlog[k].v) :
              dlog[k].v[c] = dlog[k].adj[c] - dlog[k].q[c]

-----------------------------------------------------------------------------
(* C20 as stated: in Black/White and in colour dithering the value handed   *)
(* to the quantization is the source channel value plus the incoming carry, *)
(* clamped to 0..255, and the carry is 0 for the first pixel of each line.  *)
C20_AdjustedIsSourcePlusCarry ==
    Dithering
        => \A k \in 1..Len(dlog) : \A c \in 1..Len(dlog[k].v) :
              /\ dlog[k].adj[c] = Clamp255(dlog[k].src[c] + dlog[k].carry[c])
              /\ dlog[k].x = 0 => dlog[k].carry[c] = 0

(* C20 amended: in colour dithering the value handed to MatchBestColor is   *)
(* the source channel value plus the incoming carry, clamped to 0..255; in  *)
(* Black/White dithering the value quantized is two thirds of the pixel's   *)
(* 8-bit gray (integer division) plus the incoming carry, clamped to        *)
(* 0..255; the carry is 0 for the first pixel of each line.                 *)
C20_AdjustedIsTonedSourcePlusCarry ==
    Dithering
        => \A k \in 1..Len(dlog) : \A c \in 1..Len(dlog[k].v) :
              /\ dlog[k].adj[c] =
                    Clamp255((IF iOption = OPTION_BW
                              THEN (2 * dlog[k].src[c]) \div 3
                              ELSE dlog[k].src[c]) + dlog[k].carry[c])
              /\ dlog[k].x = 0 => dlog[k].carry[c] = 0

\* a white pixel of a Black/White run that follows another in its line: it
\* comes with a carry, and 170 + carry was quantized
C20_Witness ==
    /\ Dithering /\ iOption = OPTION_BW
    /\ \E k \in 1..Len(dlog) :
          /\ dlog[k].x > 0 /\ dlog[k].src[1] = 255
          /\ dlog[k].carry[1] > 0
          /\ dlog[k].adj[1] = 170 + dlog[k].carry[1]

-----------------------------------------------------------------------------
(* main() with transforms requested: a small BMP or JPEG image, an output   *)
(* format, and a choice of mirror, flip, invert, dither and rotation.  The  *)
(* rotation is the value main() hands to RotateImage (this revision's       *)
(* option loop never sets it; src/main.c adds 90 for a portrait panel).     *)

\* bounds of the images
MaxMW == 2
MaxMH == 2
MShapes == (1..MaxMW) \X (1..MaxMH)
MColours == <<Black, White, Orange>>
Grays == <<Black, White, <<120, 120, 120>> >>
\* <<bMirror, bFlipv, bInvert, bDither, iRotation>>
OptionSets ==
    {<<0, 0, 0, 0, 0>>, <<1, 0, 0, 0, 0>>, <<0, 1, 0, 0, 0>>, <<0, 0, 1, 0, 0>>,
     <<0, 0, 0, 1, 0>>, <<0, 0, 0, 0, 90>>, <<0, 0, 0, 0, 180>>,
     <<0, 0, 0, 0, 270>>, <<0, 0, 0, 1, 90>>, <<1, 1, 0, 1, 0>>}

InitMain ==
    /\ pc = "main"
    /\ iOption \in {OPTION_BW, OPTION_BWR, OPTION_BWY, OPTION_BWYR, OPTION_4GRAY}
    /\ \E wh \in MShapes, base \in [0..(MaxFree - 1) -> 1..Len(MColours)] :
          \/ \E bpp \in {1, 4, 8, 24, 32}, up \in BOOLEAN :
                DecodedBMP([PatternOf(MColours, wh[1], wh[2], bpp, base)
                               EXCEPT !.bottomUp = up])
          \/ Decoded(JPEGImage(wh[1], wh[2], 24,
                               [n \in 0..(wh[1] * wh[2] - 1) |->
                                   Colours[base[n % MaxFree]]]))
          \/ Decoded(JPEGImage(wh[1], wh[2], 8,
                               [n \in 0..(wh[1] * wh[2] - 1) |->
                                   Grays[base[n % MaxFree]]]))
          \* a grayscale JPEG whose lines fill whole dwords, one gray a line
          \/ /\ wh = <<MaxMW, MaxMH>>
             /\ Decoded(JPEGImage(4, MaxMH, 8,
                                  [n \in 0..(4 * MaxMH - 1) |->
                                      Grays[base[(n \div 4) % MaxFree]]]))
    /\ NoPixel
    /\ NoPack
    /\ \E o \in OptionSets :
          /\ bMirror = o[1] /\ bFlipv = o[2] /\ bInvert = o[3]
          /\ bDither = o[4] /\ iRotation = o[5]
    /\ NoDither
    /\ NoRotate
    /\ calls = <<>>

NextMain ==
    \/ Next
    \/ DitherRow
    \/ DitherMonoPixel
    \/ DitherColorPixel

SpecMain == InitMain /\ [][NextMain]_vars

\* the output file was created, or is about to be
Emitting == pc \in {"makec", "plane", "row", "col", "done"}

-----------------------------------------------------------------------------
(* C11: when dithering is requested for Black/White/Red, Black/White/Yellow,*)
(* Black/White/Yellow/Red or 4-level gray and the source has fewer than 24  *)
(* bits per pixel, the run ends with the reported error: DitherBMP is not   *)
(* entered and no output file is created.                                   *)
C11_DitherNeedsFullColour ==
    (/\ bDither = 1 /\ img.bpp < 24
     /\ iOption \in {OPTION_BWR, OPTION_BWY, OPTION_BWYR, OPTION_4GRAY})
        => pc \in {"main", "mirror", "flipv", "invert", "dither", "error"}

-----------------------------------------------------------------------------
(* C17: a rotation by 90 or 270 degrees of a 1, 8, 24 or 32 bpp raster is   *)
(* an error before any output: no output is created for it, with width and  *)
(* height exchanged and the pixels where they were.                         *)
C17_UnsupportedRotation ==
    (iRotation \in {90, 270} /\ iBpp \in {1, 8, 24, 32}) => ~Emitting

-----------------------------------------------------------------------------
(* C18: the raster main() hands to the transform, dither and pack routines, *)
(* decoded from BMP or JPEG: with pitch = ceil(width * bpp / 8) rounded up  *)
(* to a multiple of 4, as those routines compute it, line y of the image is *)
(* at byte offset y * pitch and the buffer holds at least pitch * height    *)
(* bytes.                                                                   *)
C18_RasterPitch ==
    pc = "main"
        => LET pitch == SrcPitch(iWidth, iBpp)
           IN  /\ Size(pData) >= pitch * iHeight
               /\ \A xx \in 0..(iWidth - 1), yy \in 0..(iHeight - 1) :
                     IF iBpp = 1
                     THEN GrayBit1(Byte(pData, yy * pitch + Shr(xx, 3)), xx)
                             = 3 * BitAt(img, xx, yy)
                     ELSE LET f == FetchRGB(xx, yy, pData, pitch, iBpp)
                          IN  <<f.r, f.g, f.b>> = PixAt(img, xx, yy)

-----------------------------------------------------------------------------
(* Black/White dithering, finished: the 1 bpp image DitherBMP returned is   *)
(* the raster, and dlog holds what was quantized for each pixel.            *)
DitheredBW ==
    /\ pc = "rotate" /\ iOption = OPTION_BW
    /\ dlog # <<>> /\ Len(dlog) = iWidth * iHeight
\* the bit DitherBMP kept of a pixel: bit 7 of the adjusted value
QuantBit(d) == d.q[1] \div 128

-----------------------------------------------------------------------------
(* C21: Black/White dithering packs its output MSB first: for every line y  *)
(* and pixel x the quantized bit of the pixel is bit 7 - (x mod 8) of byte  *)
(* floor(x / 8) of destination line y, the pixels of a trailing partial     *)
(* byte included.                                                           *)
C21_MSBFirst ==
    DitheredBW
        => \A k \in 1..Len(dlog) :
              Bit(pData[dlog[k].y * SrcPitch(iWidth, 1) + (dlog[k].x \div 8)],
                  7 - (dlog[k].x % 8)) = QuantBit(dlog[k])

-----------------------------------------------------------------------------
(* C22: during a dithering pass, Black/White or colour, for every image     *)
(* width the error buffer holds the columns of the image and a guard column *)
(* on each side, and every entry read or written for a pixel lies inside    *)
(* the buffer.                                                              *)
C22_ErrorBufferBounds ==
    Dithering
        => IF iOption = OPTION_BW
           THEN /\ ucTempLen >= iWidth + 2
                /\ \A k \in 1..Len(dlog) :
                      MonoIdx(dlog[k].x) \subseteq 0..(ucTempLen - 1)
           ELSE /\ iErrorsLen >= 3 * (iWidth + 2)
                /\ \A k \in 1..Len(dlog) :
                      ColourIdx(dlog[k].x) \subseteq 0..(iErrorsLen - 1)

-----------------------------------------------------------------------------
(* What the column buffer received for column xx while line yy was handled: *)
(* e2 (1/16) of pixel xx - 1, e3 (5/16) of pixel xx and e4 (3/16) of pixel  *)
(* xx + 1 of that line, in channel c.                                       *)
PartOf(xx, yy, c, n) ==
    IF xx \in 0..(iWidth - 1) /\ yy * iWidth + xx + 1 \in 1..Len(dlog)
    THEN dlog[yy * iWidth + xx + 1].e[c][n]
    ELSE 0
Deposit(xx, yy, c) ==
    PartOf(xx - 1, yy, c, 2) + PartOf(xx, yy, c, 3) + PartOf(xx + 1, yy, c, 4)

-----------------------------------------------------------------------------
(* C23: for every column x in [0, width) and line y < height - 1, what the  *)
(* column buffer received for column x while line y was handled is added to *)
(* the input of pixel (x, y + 1), once: the carry into that pixel is the    *)
(* forward part (7/16) of its left neighbour plus that deposit, and nothing *)
(* of an earlier line.                                                      *)
C23_NextRow ==
    Dithering
        => \A k \in 1..Len(dlog) : \A c \in 1..Len(dlog[k].v) :
              dlog[k].y >= 1
                 => dlog[k].carry[c]
                       = PartOf(dlog[k].x - 1, dlog[k].y, c, 1)
                            + Deposit(dlog[k].x, dlog[k].y - 1, c)

-----------------------------------------------------------------------------
-----------------------------------------------------------------------------
-----------------------------------------------------------------------------
(* C26: for every input image, a BMP stored bottom-up (positive height      *)
(* field), a BMP stored top-down (negative height field) or a decoded JPEG, *)
(* after the normalization step of main() and before any other processing   *)
(* the height is positive and is the number of lines of the image, and line *)
(* 0 of the raster is the top line of the picture: pixel (x, y) of the      *)
(* raster is pixel (x, y) of the picture counted from the top.              *)
C26_TopLineFirst ==
    pc = "mirror"
        => /\ iHeight > 0 /\ iHeight = img.h /\ iWidth = img.w
           /\ \A xx \in 0..(img.w - 1), yy \in 0..(img.h - 1) :
                 LET pitch == SrcPitch(iWidth, iBpp)
                 IN  IF iBpp = 1
                     THEN GrayBit1(Byte(pData, yy * pitch + Shr(xx, 3)), xx)
                             = 3 * (IF img.pix[yy * img.w + xx] = White
                                    THEN 1 ELSE 0)
                     ELSE LET f == FetchRGB(xx, yy, pData, pitch, iBpp)
                          IN  <<f.r, f.g, f.b>> = img.pix[yy * img.w + xx]

-----------------------------------------------------------------------------
(* C27: MirrorBMP is a horizontal mirror: for each depth 1, 4, 8, 24, 32,   *)
(* each width and height and each pixel (x, y), the pixel the sampler reads *)
(* at (x, y) after a call is the pixel it read at (width - 1 - x, y) before *)
(* the call, odd widths, lines of an odd number of bytes and 1 bpp widths   *)
(* that are not a multiple of 8 included.                                   *)
C27_TrueMirror ==
    (pc = "xform" /\ calls = RunOf("MirrorBMP", 0, 1))
        => LET pitch  == SrcPitch(iWidth, iBpp)
               before == Raster(img)
           IN  \A xx \in 0..(iWidth - 1), yy \in 0..(iHeight - 1) :
                  IF iBpp = 1
                  THEN GrayBit1(Byte(pData, yy * pitch + Shr(xx, 3)), xx)
                          = GrayBit1(Byte(before, yy * pitch
                                                    + Shr(iWidth - 1 - xx, 3)),
                                     iWidth - 1 - xx)
                  ELSE FetchRGB(xx, yy, pData, pitch, iBpp)
                          = FetchRGB(iWidth - 1 - xx, yy, before, pitch, iBpp)

-----------------------------------------------------------------------------
(* RotateImage step by step: the call, the row loop and the column loop of  *)
(* its 4 bpp case with their uint8_t counters y and x, and what follows the *)
(* switch.  s and d are kept as offsets into the raster and into pTemp; an  *)
(* offset past the end of a buffer is kept as the end of the buffer, since  *)
(* s and d only move forward from there.                                    *)

\* bounds of the rotated rasters
MaxRW == 3
MaxRH == 3
\* columns around the range of the uint8_t counters
TallColumns == {<<1, 254>>, <<1, 255>>, <<1, 511>>}

InitRotate ==
    /\ pc = "rcall"
    /\ iOption = OPTION_BW
    /\ \/ \E wh \in (1..MaxRW) \X (1..MaxRH), bpp \in {1, 4, 8, 24, 32} :
             Decoded(Pattern(wh[1], wh[2], bpp, [k \in 0..(MaxFree - 1) |-> k + 1]))
       \/ \E wh \in TallColumns :
             Decoded(Pattern(wh[1], wh[2], 4, [k \in 0..(MaxFree - 1) |-> k + 1]))
    /\ NoPixel
    /\ NoPack
    /\ bMirror = 0 /\ bFlipv = 0 /\ bInvert = 0 /\ bDither = 0
    /\ iRotation \in {0, 90, 180, 270}
    /\ NoDither
    /\ NoRotate
    /\ calls = <<>>

\* the entry of RotateImage, up to the row loop of case 4
RotateBegin ==
    /\ pc = "rcall"
    /\ \E fill \in Fill :
          /\ junk' = fill
          /\ IF iRotation = 0
             THEN pc' = "rdone" /\ UNCHANGED <<pData, pTemp, sOff, y>>
             ELSE IF iRotation = 180
             THEN /\ pc' = "rdone"
                  /\ pData' = MirrorBMP(FlipBMP(pData, iWidth, iHeight, iBpp),
                                        iWidth, iHeight, iBpp)
                  /\ UNCHANGED <<pTemp, sOff, y>>
             ELSE IF iBpp = 4
             THEN /\ pc' = "ry"
                  /\ pTemp' = [k \in 0..((iWidth + 2) * SrcPitch(iHeight, 4) - 1)
                                  |-> fill]
                  /\ sOff' = 0
                  /\ y' = 0
                  /\ UNCHANGED pData
             ELSE pc' = "rtail" /\ UNCHANGED <<pData, pTemp, sOff, y>>
    /\ UNCHANGED <<img, iOption, optVars, ditherVars, calls, dOff, iWidth,
                   iHeight, iBpp, ucRed, ucGreen, ucBlue, pixelVars,
                   iPlane, x, uc, i, iPitch, iTotal, codeLog, out>>

\* pTemp after the cnt rounds of the column loop that starts with s at s0
\* and d at d0: round j stores c3 at d0 + 2*j*iDstPitch and c2 one pitch on
ColumnLoop(tmp, p, s0, d0, cnt, iSrcPitch, iDstPitch, fill) ==
    [off \in DOMAIN tmp |->
        IF /\ off >= d0
           /\ (off - d0) % iDstPitch = 0
           /\ (off - d0) \div iDstPitch < 2 * cnt
        THEN LET k  == (off - d0) \div iDstPitch
                 c1 == IF s0 + (k \div 2) \in DOMAIN p
                       THEN p[s0 + (k \div 2)] ELSE fill
                 c2 == IF s0 + (k \div 2) + iSrcPitch \in DOMAIN p
                       THEN p[s0 + (k \div 2) + iSrcPitch] ELSE fill
             IN  IF k % 2 = 0
                 THEN Or8(Shr(c1, 4), c2 - (c2 % 16))
                 ELSE Or8(Shl8(c2, 4), c1 % 16)
        ELSE tmp[off]]

\* for (y = 0; y < h; y += 2): a round, or the memcpy after the loop.  A
\* round whose column loop can end (its bound fits the uint8_t x) is taken
\* with that loop as one step, s += iSrcPitch * 2 and y += 2 included;
\* otherwise the column loop is entered.  Accesses outside the buffers, and
\* a memcpy longer than the raster, may stop the process.
RotateRow ==
    /\ pc = "ry"
    /\ IF y < iHeight /\ Shr(iHeight + 1, 1) > 255
       THEN /\ dOff' = ((iWidth - 1) \div 2) - y
            /\ x' = 0
            /\ pc' = "rx"
            /\ UNCHANGED <<pData, pTemp, sOff, y>>
       ELSE IF y < iHeight
       THEN \E iSrcPitch \in {SrcPitch(iWidth, 4)} :
            \E iDstPitch \in {SrcPitch(iHeight, 4)} :
            \E cnt \in {Shr(iHeight + 1, 1)} :
            \E d0 \in {((iWidth - 1) \div 2) - y} :
            \E stopped \in (IF \A j \in 0..(cnt - 1) :
                                  /\ sOff + j + iSrcPitch \in DOMAIN pData
                                  /\ d0 + 2 * j * iDstPitch \in DOMAIN pTemp
                                  /\ d0 + (2 * j + 1) * iDstPitch
                                        \in DOMAIN pTemp
                            THEN {FALSE} ELSE {FALSE, TRUE}) :
               IF stopped
               THEN pc' = "crash" /\ UNCHANGED <<pData, pTemp, sOff, dOff, x, y>>
               ELSE /\ pTemp' = ColumnLoop(pTemp, pData, sOff, d0, cnt,
                                           iSrcPitch, iDstPitch, junk)
                    /\ sOff' = Min(sOff + cnt + 2 * iSrcPitch, Size(pData))
                    /\ dOff' = Min(d0 + 2 * cnt * iDstPitch, Size(pTemp))
                    /\ x' = cnt
                    /\ y' = (y + 2) % 256
                    /\ pc' = "ry"
                    /\ UNCHANGED pData
       ELSE \E n \in {SrcPitch(iHeight, 4) * iWidth} :
            \E stopped \in (IF n <= Size(pData) THEN {FALSE} ELSE {FALSE, TRUE}) :
               IF stopped
               THEN pc' = "crash" /\ UNCHANGED <<pData, pTemp, sOff, dOff, x, y>>
               ELSE /\ pc' = "rtail"
                    /\ pData' = [off \in DOMAIN pData \cup 0..(n - 1) |->
                                    IF off < n THEN pTemp[off] ELSE pData[off]]
                    /\ UNCHANGED <<pTemp, sOff, dOff, x, y>>
    /\ UNCHANGED <<img, iOption, optVars, ditherVars, calls, junk,
                   iWidth, iHeight, iBpp, ucRed, ucGreen, ucBlue, pixelVars,
                   iPlane, uc, i, iPitch, iTotal, codeLog, out>>

\* for (x = 0; x < (h+1)>>1; x++), round by round: one round, or the end of
\* the loop with s += iSrcPitch * 2 and y += 2; a round that reads or
\* stores outside the buffers may stop the process
RotateColumn ==
    /\ pc = "rx"
    /\ IF x < Shr(iHeight + 1, 1)
       THEN \E iSrcPitch \in {SrcPitch(iWidth, 4)} :
            \E iDstPitch \in {SrcPitch(iHeight, 4)} :
            \E c1 \in {IF sOff \in DOMAIN pData THEN pData[sOff] ELSE junk} :
            \E c2 \in {IF sOff + iSrcPitch \in DOMAIN pData
                       THEN pData[sOff + iSrcPitch] ELSE junk} :
            \E stopped \in (IF /\ sOff + iSrcPitch \in DOMAIN pData
                               /\ dOff \in DOMAIN pTemp
                               /\ dOff + iDstPitch \in DOMAIN pTemp
                            THEN {FALSE} ELSE {FALSE, TRUE}) :
               IF stopped
               THEN pc' = "crash" /\ UNCHANGED <<pTemp, sOff, dOff, x, y>>
               ELSE /\ pTemp' = StoreAt(StoreAt(pTemp, dOff,
                                                Or8(Shr(c1, 4), c2 - (c2 % 16))),
                                        dOff + iDstPitch,
                                        Or8(Shl8(c2, 4), c1 % 16))
                    /\ sOff' = Min(sOff + 1, Size(pData))
                    /\ dOff' = Min(dOff + 2 * iDstPitch, Size(pTemp))
                    /\ x' = (x + 1) % 256
                    /\ pc' = "rx"
                    /\ y' = y
       ELSE /\ sOff' = Min(sOff + 2 * SrcPitch(iWidth, 4), Size(pData))
            /\ y' = (y + 2) % 256
            /\ pc' = "ry"
            /\ UNCHANGED <<pTemp, dOff, x>>
    /\ UNCHANGED <<img, iOption, optVars, ditherVars, calls, junk, rasterVars,
                   pixelVars, iPlane, uc, i, iPitch, iTotal, codeLog, out>>

\* after the switch: FlipBMP and MirrorBMP for 270 degrees, which may reach
\* past the raster, and the exchange of *iWidth and *iHeight through x
RotateEnd ==
    /\ pc = "rtail"
    /\ \E stopped \in (IF /\ iRotation = 270
                          /\ SrcPitch(iHeight, iBpp) * iWidth > Size(pData)
                       THEN {FALSE, TRUE} ELSE {FALSE}) :
          IF stopped
          THEN pc' = "crash" /\ UNCHANGED <<pData, iWidth, iHeight>>
          ELSE /\ pc' = "rdone"
               /\ pData' = IF iRotation = 270
                           THEN MirrorBMP(FlipBMP(pData, iHeight, iWidth, iBpp),
                                          iHeight, iWidth, iBpp)
                           ELSE pData
               /\ iWidth' = iHeight
               /\ iHeight' = SwapThroughX(iWidth)
    /\ UNCHANGED <<auxVars, img, iOption, iBpp, ucRed, ucGreen, ucBlue,
                   pixelVars, packVars>>

NextRotate ==
    \/ RotateBegin
    \/ RotateRow
    \/ RotateColumn
    \/ RotateEnd

\* the process goes on as long as it has a step to take
SpecRotate == InitRotate /\ [][NextRotate]_vars /\ WF_vars(NextRotate)

-----------------------------------------------------------------------------
(* C28: RotateImage terminates for every rotation 0, 90, 180, 270, every    *)
(* depth and every width and height from 1 to 65535: the row loop and the   *)
(* column loop, whose counters y and x are 8 bits wide, reach their bounds  *)
(* and the call returns (unless the process was stopped at an access        *)
(* outside a buffer).                                                       *)
C28_Terminates == <>(pc \in {"rdone", "crash"})

-----------------------------------------------------------------------------
(* C29: the quantizer of the dithering and the classifiers are the same     *)
(* decision chain: for every (r, g, b) and each of Black/White/Red,         *)
(* Black/White/Yellow and Black/White/Yellow/Red, MatchBestColor returns    *)
(* the representative colour (black (0,0,0), white (255,255,255), red       *)
(* (255,0,0), yellow (255,255,0)) of the colour whose code GetRedPixel,     *)
(* GetYellowPixel or GetBWYRPixel returns for a 24 bpp pixel of the same    *)
(* channel values.                                                          *)
C29_SameChain ==
    pc = "matched"
        => calls[1].a = (CASE ucPixel = 0 -> Black
                           [] ucPixel = 1 -> White
                           [] ucPixel = 2 /\ fn = "red" -> Red
                           [] ucPixel = 2 /\ fn # "red" -> Yellow
                           [] ucPixel = 3 /\ fn = "bwyr" -> Red
                           [] OTHER -> <<>>)

\* a pixel between red and yellow, r - g in 33..70, matched for four colours:
\* code 2 and yellow
C29_Witness ==
    /\ pc = "matched" /\ fn = "bwyr" /\ iBpp = 24
    /\ SR - SG > 32 /\ SR - SG <= 70
    /\ ucPixel = 2 /\ calls[1].a = Yellow

-----------------------------------------------------------------------------
(* C30: the image Black/White dithering returns is read back by the 1 bpp   *)
(* sampler: for every width, multiple of 8 or not, every height and every   *)
(* pixel (x, y), GetGrayPixel with bpp = 1 and the dword-aligned 1 bpp      *)
(* pitch returns white (3) when DitherBMP quantized the pixel to white (bit *)
(* 7 of its adjusted value set) and black (0) otherwise.                    *)
C30_ReadBack ==
    DitheredBW
        => \A k \in 1..Len(dlog) :
              GetGrayPixel(dlog[k].x, dlog[k].y, pData, SrcPitch(iWidth, 1), 1)
                 = 3 * QuantBit(dlog[k])

=============================================================================
